---- MODULE Spec2Model ----
(***************************************************************************)
(* HTTP/2 codec (proxygen HTTP2Codec.cpp): the ingress parser, the header  *)
(* block continuation interlock, stream-id validation, the GOAWAY          *)
(* lifecycle and connection/stream error reporting.                        *)
(*                                                                         *)
(* The codec object is the record `codec`, one field per member.  The byte *)
(* stream is a sequence of tokens (connection preface, 9-byte common frame *)
(* header, frame payload), each with its size in bytes; `wire` holds the   *)
(* bytes the peer has sent and the codec has not consumed, `avail` how     *)
(* many of them have reached the caller's buffer.  The release (NDEBUG)    *)
(* build is modelled: the blocks under #ifndef NDEBUG are compiled out.    *)
(***************************************************************************)
EXTENDS Integers, Sequences, FiniteSets, TLC

VARIABLES
  codec,      \* the HTTP2Codec object
  wire,       \* bytes sent by the peer and not yet dropped by the caller
  avail,      \* how many bytes of wire are in the caller's ingress buffer
  lastCall,   \* the onIngress call that has just returned to the caller
  lastGen,    \* the generate call that has just returned to the caller
  goaways,    \* the GOAWAY frames written to the write buffer so far
  gotGoaway,  \* a GOAWAY frame of the peer has been parsed
  hist        \* the whole ingress history (kept by SpecChunk only)

vars == <<codec, wire, avail, lastCall, lastGen, goaways, gotGoaway, hist>>

(***************************************************************************)
(* Bounds of the model.                                                    *)
(***************************************************************************)
MaxWire == 4      \* tokens in flight (a frame is one or two tokens)
MaxNew == 2       \* frames the peer adds before one onIngress call
MaxSent == 5      \* tokens ever sent under SpecChunk
MaxPairs == 2     \* pairs of one SETTINGS frame
MaxChunks == 3    \* header fields of a generated message, split sizes in a body
MaxBlock == 3     \* frames, and accumulated entries, of one ingress header block

(***************************************************************************)
(* Protocol constants.                                                     *)
(***************************************************************************)
kConnectionPrefaceLength == 24
kFrameHeaderSize == 9
kMaxFramePayloadLengthMin == 16384
kMaxFramePayloadLength == 16777215
kMaxWindowUpdateSize == 2147483647
kMaxInt32 == 2147483647

(***************************************************************************)
(* uint32_t values that can exceed 2^31 - 1 (settings values and           *)
(* ingressGoawayAck_) are kept as their two 16-bit halves.                 *)
(***************************************************************************)
U32(n) == [hi |-> n \div 65536, lo |-> n % 65536]

U32Less(a, b) == a.hi < b.hi \/ (a.hi = b.hi /\ a.lo < b.lo)

\* std::numeric_limits<uint32_t>::max()
kMaxUInt32 == [hi |-> 65535, lo |-> 65535]

\* 2^31, the least value above kMaxWindowUpdateSize
kTwoTo31 == [hi |-> 32768, lo |-> 0]

\* Frame flags (bit values): ACK and END_STREAM share bit 0x1.
END_STREAM == 1
ACK == 1
END_HEADERS == 4

NO_ERROR == "NO_ERROR"
PROTOCOL_ERROR == "PROTOCOL_ERROR"
FRAME_SIZE_ERROR == "FRAME_SIZE_ERROR"
COMPRESSION_ERROR == "COMPRESSION_ERROR"

DOWNSTREAM == "DOWNSTREAM"
UPSTREAM == "UPSTREAM"

OPEN == "OPEN"
FIRST_GOAWAY_SENT == "FIRST_GOAWAY_SENT"
CLOSED == "CLOSED"

\* Settings ids.
HEADER_TABLE_SIZE == 1
ENABLE_PUSH == 2
MAX_CONCURRENT_STREAMS == 3
INITIAL_WINDOW_SIZE == 4
MAX_FRAME_SIZE == 5
MAX_HEADER_LIST_SIZE == 6

(***************************************************************************)
(* Callbacks: one record per invocation of the event sink.                 *)
(***************************************************************************)
NoMsg == [ok |-> FALSE, isRequest |-> FALSE, method |-> "", url |-> "",
          secure |-> FALSE, status |-> 0, headers |-> <<>>, cookie |-> <<>>]

CB(name, stream) ==
  [cb |-> name, stream |-> stream, codecStatus |-> "", httpStatus |-> 0,
   newTxn |-> FALSE, assoc |-> 0, n |-> 0, msg |-> NoMsg, list |-> <<>>]

(***************************************************************************)
(* Header syntax checks of SPDYUtil, by the strings the model uses.        *)
(***************************************************************************)
validateMethod(s) == s \in {"GET", "POST", "CONNECT", "https", "http"}

validateURL(s) == s \in {"/", "/path"}

validateHeaderValue(s) == s \notin {"bad\nvalue"}

validateHeaderName(s) == s \notin {"bad name", ""}

\* folly::to<unsigned int>: the number a string denotes, -1 when it is none.
ToUnsigned(s) ==
  CASE s = "200" -> 200
    [] s = "100" -> 100
    [] s = "999" -> 999
    [] s = "99" -> 99
    [] s = "1000" -> 1000
    [] OTHER -> -1

\* name.startsWith(':'), by the header names the model uses.
StartsWithColon(name) ==
  name \in {":method", ":scheme", ":authority", ":path", ":status", ":bogus"}

(***************************************************************************)
(* Header-block compression engine (HPACK), an external collaborator: a    *)
(* block is the sequence of the entries it encodes; an entry named Garbage *)
(* stands for bytes the decoder rejects.                                   *)
(***************************************************************************)
Garbage == "<undecodable>"

H(name, value) == [n |-> name, v |-> value]

HeaderDecode(block) ==
  [isError |-> \E i \in 1..Len(block) : block[i].n = Garbage,
   headers |-> block]

(***************************************************************************)
(* Sequencing: The({body : v \in {e}}) is body with v standing for the    *)
(* value of e, computed once: a local variable assigned by a statement, or *)
(* the state a loop iteration starts from.                                 *)
(***************************************************************************)
The(S) == CHOOSE out \in S : TRUE

(***************************************************************************)
(* HTTPRequestVerifier and parseHeaderList.  `st` carries the locals of    *)
(* parseHeaderList: the verifier's flags and error, hasStatus,             *)
(* regularHeaderSeen, the message under construction, `ret` (the string of *)
(* an early return, "" when none) and `brk` (the loop was left by break).  *)
(***************************************************************************)
VerifierInit ==
  [hasMethod |-> FALSE, hasPath |-> FALSE, hasScheme |-> FALSE,
   hasAuthority |-> FALSE, error |-> "", hasStatus |-> FALSE,
   regularHeaderSeen |-> FALSE, ret |-> "", brk |-> FALSE,
   method |-> "", url |-> "", secure |-> FALSE, status |-> 0,
   headers |-> <<>>]

\* Each setter yields the new locals; brk is set when the setter returns false.
setMethod(st, method) ==
  IF st.hasMethod THEN [st EXCEPT !.error = "Duplicate method", !.brk = TRUE]
  ELSE IF ~validateMethod(method)
       THEN [st EXCEPT !.error = "Invalid method", !.brk = TRUE]
  ELSE [st EXCEPT !.hasMethod = TRUE, !.method = method]

setPath(st, path) ==
  IF st.hasPath THEN [st EXCEPT !.error = "Duplicate path", !.brk = TRUE]
  ELSE IF ~validateURL(path)
       THEN [st EXCEPT !.error = "Invalid url", !.brk = TRUE]
  ELSE [st EXCEPT !.hasPath = TRUE, !.url = path]

setScheme(st, scheme) ==
  IF st.hasScheme THEN [st EXCEPT !.error = "Duplicate scheme", !.brk = TRUE]
  ELSE IF ~validateMethod(scheme)
       THEN [st EXCEPT !.error = "Invalid scheme", !.brk = TRUE]
  ELSE [st EXCEPT !.hasScheme = TRUE, !.secure = (scheme = "https")]

setAuthority(st, authority) ==
  IF st.hasAuthority
  THEN [st EXCEPT !.error = "Duplicate authority", !.brk = TRUE]
  ELSE IF ~validateHeaderValue(authority)
       THEN [st EXCEPT !.error = "Invalid authority", !.brk = TRUE]
  ELSE [st EXCEPT !.hasAuthority = TRUE,
                  !.headers = Append(@, H("Host", authority))]

\* verifier.validate(): the else-if also runs for a well-formed CONNECT.
validate(st) ==
  IF st.error # "" THEN st
  ELSE IF st.method = "CONNECT" /\
          (~st.hasMethod \/ ~st.hasAuthority \/ st.hasScheme \/ st.hasPath)
       THEN [st EXCEPT !.error = "Malformed CONNECT request"]
  ELSE IF ~st.hasMethod \/ ~st.hasScheme \/ ~st.hasPath
       THEN [st EXCEPT !.error = "Malformed request"]
  ELSE st

\* Mutant of HeaderListStep: a regular header named connection is taken as
\* any other regular header.
HeaderListStep_AllowsConnection(st, name, value, isRequest) ==
  IF StartsWithColon(name) THEN
    IF st.regularHeaderSeen THEN [st EXCEPT !.ret = "Illegal pseudo header"]
    ELSE IF isRequest THEN
      CASE name = ":method" -> setMethod(st, value)
        [] name = ":scheme" -> setScheme(st, value)
        [] name = ":authority" -> setAuthority(st, value)
        [] name = ":path" -> setPath(st, value)
        [] OTHER -> [st EXCEPT !.ret = "Invalid header name"]
    ELSE IF name = ":status" THEN
      IF st.hasStatus THEN [st EXCEPT !.ret = "Duplicate status"]
      ELSE LET code == ToUnsigned(value) IN
           IF code >= 100 /\ code <= 999
           THEN [st EXCEPT !.hasStatus = TRUE, !.status = code]
           ELSE [st EXCEPT !.hasStatus = TRUE, !.ret = "Malformed status code"]
    ELSE [st EXCEPT !.ret = "Invalid header name"]
  ELSE
    LET added == [st EXCEPT !.regularHeaderSeen = TRUE,
                            !.headers = Append(@, H(name, value))] IN
    IF ~validateHeaderName(name) \/ ~validateHeaderValue(value)
    THEN [added EXCEPT !.ret = "Bad header value"]
    ELSE added

\* One iteration of the for loop of parseHeaderList.
HeaderListStep(st, name, value, isRequest) ==
  IF StartsWithColon(name) THEN
    IF st.regularHeaderSeen THEN [st EXCEPT !.ret = "Illegal pseudo header"]
    ELSE IF isRequest THEN
      CASE name = ":method" -> setMethod(st, value)
        [] name = ":scheme" -> setScheme(st, value)
        [] name = ":authority" -> setAuthority(st, value)
        [] name = ":path" -> setPath(st, value)
        [] OTHER -> [st EXCEPT !.ret = "Invalid header name"]
    ELSE IF name = ":status" THEN
      IF st.hasStatus THEN [st EXCEPT !.ret = "Duplicate status"]
      ELSE LET code == ToUnsigned(value) IN
           IF code >= 100 /\ code <= 999
           THEN [st EXCEPT !.hasStatus = TRUE, !.status = code]
           ELSE [st EXCEPT !.hasStatus = TRUE, !.ret = "Malformed status code"]
    ELSE [st EXCEPT !.ret = "Invalid header name"]
  ELSE
    IF name = "connection"
    THEN [st EXCEPT !.regularHeaderSeen = TRUE,
                    !.ret = "HTTP/2 Message with Connection header"]
    ELSE LET added == [st EXCEPT !.regularHeaderSeen = TRUE,
                                 !.headers = Append(@, H(name, value))] IN
         IF ~validateHeaderName(name) \/ ~validateHeaderValue(value)
         THEN [added EXCEPT !.ret = "Bad header value"]
         ELSE added

RECURSIVE HeaderListLoop(_, _, _, _)
HeaderListLoop(st0, list, i, isRequest) ==
  The({(IF i > Len(list) \/ st.ret # "" \/ st.brk THEN st
        ELSE HeaderListLoop(HeaderListStep(st, list[i].n, list[i].v, isRequest),
                            list, i + 1, isRequest))
       : st \in {st0}})

IsCookie(e) == e.n = "cookie"
NotCookie(e) == e.n # "cookie"

RECURSIVE Values(_)
Values(entries) ==
  IF entries = <<>> THEN <<>> ELSE <<Head(entries).v>> \o Values(Tail(entries))

\* The result of parseHeaderList: error is "" on success, and then msg is the
\* message; cookie is the list of Cookie values joined by "; ".
parseHeaderList(list, isRequest) ==
  The({(LET fin == IF st.ret # "" THEN st
                   ELSE IF isRequest THEN validate(st)
                   ELSE IF ~st.hasStatus
                        THEN [st EXCEPT
                                !.ret = "Malformed response, missing :status"]
                   ELSE st
             err == IF fin.ret # "" THEN fin.ret ELSE fin.error
         IN [error |-> err,
             msg |-> IF err # "" THEN NoMsg
                     ELSE [ok |-> TRUE, isRequest |-> isRequest,
                           method |-> fin.method, url |-> fin.url,
                           secure |-> fin.secure, status |-> fin.status,
                           headers |-> IF isRequest
                                       THEN SelectSeq(fin.headers, NotCookie)
                                       ELSE fin.headers,
                           cookie |-> IF isRequest
                                      THEN Values(SelectSeq(fin.headers, IsCookie))
                                      ELSE <<>>]])
       : st \in {HeaderListLoop(VerifierInit, list, 1, isRequest)}})

(***************************************************************************)
(* Frames.  A common frame header and the fields the frame serializer      *)
(* (HTTP2Framer, an external collaborator) reads from the payload; ferr is *)
(* the error code the serializer's parse function returns for the payload. *)
(***************************************************************************)
FrameHeader(type, flags, stream, length) ==
  [type |-> type, flags |-> flags, stream |-> stream, length |-> length]

NullHeader == FrameHeader("DATA", {}, 0, 0)

NullPayload ==
  [ferr |-> NO_ERROR, promised |-> 0, block |-> <<>>, settings |-> <<>>,
   lastGood |-> 0, code |-> NO_ERROR, delta |-> 0, opaque |-> 0]

\* The payload a zero-length frame carries, and the one read from bytes that
\* are not the payload of the current header.
GarbagePayload == [NullPayload EXCEPT !.ferr = PROTOCOL_ERROR]

\* http2::parse<Type>(cursor, header, ...): the serializer's verdict.
FramerParse(h, p) ==
  IF h.type = "SETTINGS" /\ ACK \in h.flags /\ h.length # 0
  THEN FRAME_SIZE_ERROR
  ELSE p.ferr

frameAffectsCompression(type) ==
  type \in {"HEADERS", "PUSH_PROMISE", "CONTINUATION"}

(***************************************************************************)
(* Settings stores: a function from the ids that were set to their values. *)
(***************************************************************************)
getSetting(store, id, default) ==
  IF id \in DOMAIN store THEN store[id] ELSE default

setSetting(store, id, value) ==
  [x \in DOMAIN store \cup {id} |-> IF x = id THEN value ELSE store[x]]

\* The protocol defaults a store holds before anything is set.
DefaultSettings ==
  (HEADER_TABLE_SIZE :> U32(4096)) @@ (ENABLE_PUSH :> U32(1)) @@
  (INITIAL_WINDOW_SIZE :> U32(65535)) @@ (MAX_FRAME_SIZE :> U32(16384))

maxRecvFrameSize(c) ==
  getSetting(c.egressSettings_, MAX_FRAME_SIZE, U32(kMaxFramePayloadLengthMin))

maxSendFrameSize(c) ==
  getSetting(c.ingressSettings_, MAX_FRAME_SIZE, U32(kMaxFramePayloadLengthMin))

(***************************************************************************)
(* The codec object after construction.                                    *)
(***************************************************************************)
NewCodec(direction) ==
  [transportDirection_ |-> direction,
   nextEgressStreamID_ |-> IF direction = DOWNSTREAM THEN 2 ELSE 1,
   sessionClosing_ |-> OPEN,
   needConnectionPreface_ |-> (direction = DOWNSTREAM),
   needHeader_ |-> TRUE,
   curHeader_ |-> NullHeader,
   expectedContinuationStream_ |-> 0,
   lastStreamID_ |-> 0,
   ingressGoawayAck_ |-> kMaxUInt32,
   curHeaderBlock_ |-> <<>>,
   ingressSettings_ |-> DefaultSettings,
   egressSettings_ |-> DefaultSettings,
   encoderHeaderTableSize |-> U32(4096)]

(***************************************************************************)
(* Per-type handlers.  Each yields R(c, err, calls): the codec after the   *)
(* handler, the ErrorCode it returns and the callbacks it invoked.         *)
(***************************************************************************)
R(c, err, calls) == [c |-> c, err |-> err, calls |-> calls]

handleEndStream(c) ==
  IF END_STREAM \in c.curHeader_.flags
  THEN <<[CB("onMessageComplete", c.curHeader_.stream) EXCEPT !.newTxn = FALSE]>>
  ELSE <<>>

parseData(c, p) ==
  IF FramerParse(c.curHeader_, p) # NO_ERROR
  THEN R(c, FramerParse(c.curHeader_, p), <<>>)
  ELSE R(c, NO_ERROR,
         <<CB("onBody", c.curHeader_.stream)>> \o handleEndStream(c))

isOdd(streamId) == streamId % 2 = 1

\* Mutant of checkNewStream: the parity of the stream id is not checked.
checkNewStream_NoParity(c, streamId) ==
  IF streamId = 0 \/ streamId < c.lastStreamID_
  THEN [c |-> c, err |-> PROTOCOL_ERROR]
  ELSE [c |-> [c EXCEPT !.lastStreamID_ = c.curHeader_.stream], err |-> NO_ERROR]

\* checkNewStream: the codec after the call, and the ErrorCode returned.
checkNewStream(c, streamId) ==
  IF streamId = 0 \/ streamId < c.lastStreamID_
  THEN [c |-> c, err |-> PROTOCOL_ERROR]
  ELSE LET odd == isOdd(streamId)
           push == (c.transportDirection_ = UPSTREAM)
           c1 == [c EXCEPT !.lastStreamID_ = c.curHeader_.stream]
       IN IF (odd /\ push) \/ (~odd /\ ~push)
          THEN [c |-> c1, err |-> PROTOCOL_ERROR]
          ELSE [c |-> c1, err |-> NO_ERROR]

NoPromise == -1

\* Mutant of parseHeadersImpl: a header list that fails validation ends the
\* connection.
parseHeadersImpl_ErrorIsFatal(c, headerBuf, promisedStream) ==
  LET h == c.curHeader_
      c1 == [c EXCEPT !.curHeaderBlock_ = @ \o headerBuf]
      endHeaders == END_HEADERS \in h.flags
      result == HeaderDecode(c1.curHeaderBlock_)
      c2 == [c1 EXCEPT !.curHeaderBlock_ = <<>>]
      isRequest == c.transportDirection_ = DOWNSTREAM \/ promisedStream # NoPromise
  IN The({(LET msg == IF endHeaders THEN parseResult.msg ELSE NoMsg
               cAfter == IF endHeaders THEN c2 ELSE c1
               begin ==
                 IF h.type = "HEADERS"
                 THEN <<[CB("onMessageBegin", h.stream) EXCEPT !.msg = msg]>>
                 ELSE IF h.type = "PUSH_PROMISE"
                 THEN <<[CB("onPushMessageBegin", promisedStream)
                           EXCEPT !.assoc = h.stream, !.msg = msg]>>
                 ELSE <<>>
               complete ==
                 IF endHeaders /\ msg.ok
                 THEN <<[CB("onHeadersComplete", h.stream) EXCEPT !.msg = msg]>>
                 ELSE <<>>
           IN IF endHeaders /\ result.isError
              THEN R(c2, COMPRESSION_ERROR, <<>>)
              ELSE IF endHeaders /\ parseResult.error # ""
              THEN R(c2, PROTOCOL_ERROR,
                     <<[CB("onError", h.stream)
                          EXCEPT !.httpStatus = 400, !.newTxn = TRUE]>>)
              ELSE R(cAfter, NO_ERROR, begin \o complete \o handleEndStream(c)))
          : parseResult \in {parseHeaderList(result.headers, isRequest)}})

\* parseHeadersImpl: promisedStream is NoPromise for boost::none.  The second
\* append of the else branch appends the moved-from (null) buffer: nothing.
parseHeadersImpl(c, headerBuf, promisedStream) ==
  LET h == c.curHeader_
      c1 == [c EXCEPT !.curHeaderBlock_ = @ \o headerBuf]
      endHeaders == END_HEADERS \in h.flags
      result == HeaderDecode(c1.curHeaderBlock_)
      c2 == [c1 EXCEPT !.curHeaderBlock_ = <<>>]
      isRequest == c.transportDirection_ = DOWNSTREAM \/ promisedStream # NoPromise
  IN The({(LET msg == IF endHeaders THEN parseResult.msg ELSE NoMsg
               cAfter == IF endHeaders THEN c2 ELSE c1
               begin ==
                 IF h.type = "HEADERS"
                 THEN <<[CB("onMessageBegin", h.stream) EXCEPT !.msg = msg]>>
                 ELSE IF h.type = "PUSH_PROMISE"
                 THEN <<[CB("onPushMessageBegin", promisedStream)
                           EXCEPT !.assoc = h.stream, !.msg = msg]>>
                 ELSE <<>>
               complete ==
                 IF endHeaders /\ msg.ok
                 THEN <<[CB("onHeadersComplete", h.stream) EXCEPT !.msg = msg]>>
                 ELSE <<>>
           IN IF endHeaders /\ result.isError
              THEN R(c2, COMPRESSION_ERROR, <<>>)
              ELSE IF endHeaders /\ parseResult.error # ""
              THEN R(c2, NO_ERROR,
                     <<[CB("onError", h.stream)
                          EXCEPT !.httpStatus = 400, !.newTxn = TRUE]>>)
              ELSE R(cAfter, NO_ERROR, begin \o complete \o handleEndStream(c)))
          : parseResult \in {parseHeaderList(result.headers, isRequest)}})

parseHeaders(c, p) ==
  LET h == c.curHeader_
      chk == checkNewStream(c, h.stream)
  IN IF FramerParse(h, p) # NO_ERROR THEN R(c, FramerParse(h, p), <<>>)
     ELSE IF c.transportDirection_ = DOWNSTREAM /\ chk.err # NO_ERROR
     THEN R(chk.c, chk.err, <<>>)
     ELSE IF c.transportDirection_ # DOWNSTREAM /\ ~isOdd(h.stream)
     THEN R(c, PROTOCOL_ERROR, <<>>)
     ELSE LET c1 == IF c.transportDirection_ = DOWNSTREAM THEN chk.c ELSE c IN
          IF c1.sessionClosing_ = CLOSED THEN R(c1, NO_ERROR, <<>>)
          ELSE parseHeadersImpl(c1, p.block, NoPromise)

parseContinuation(c, p) ==
  IF FramerParse(c.curHeader_, p) # NO_ERROR
  THEN R(c, FramerParse(c.curHeader_, p), <<>>)
  ELSE parseHeadersImpl(c, p.block, NoPromise)

parsePriority(c, p) == R(c, FramerParse(c.curHeader_, p), <<>>)

parseRstStream(c, p) ==
  IF FramerParse(c.curHeader_, p) # NO_ERROR
  THEN R(c, FramerParse(c.curHeader_, p), <<>>)
  ELSE R(c, NO_ERROR,
         <<[CB("onAbort", c.curHeader_.stream) EXCEPT !.codecStatus = p.code]>>)

\* Mutant of SettingRejected: the bounds of MAX_FRAME_SIZE are exclusive.
SettingRejected_ExclusiveBounds(id, value) ==
  CASE id = ENABLE_PUSH -> value # U32(0) /\ value # U32(1)
    [] id = INITIAL_WINDOW_SIZE -> U32Less(U32(kMaxWindowUpdateSize), value)
    [] id = MAX_FRAME_SIZE ->
         \/ ~U32Less(U32(kMaxFramePayloadLengthMin), value)
         \/ ~U32Less(value, U32(kMaxFramePayloadLength))
    [] OTHER -> FALSE

\* The switch of parseSettings on one pair: TRUE when the pair is rejected.
SettingRejected(id, value) ==
  CASE id = ENABLE_PUSH -> value # U32(0) /\ value # U32(1)
    [] id = INITIAL_WINDOW_SIZE -> U32Less(U32(kMaxWindowUpdateSize), value)
    [] id = MAX_FRAME_SIZE ->
         \/ U32Less(value, U32(kMaxFramePayloadLengthMin))
         \/ U32Less(U32(kMaxFramePayloadLength), value)
    [] OTHER -> FALSE

\* Mutant of SettingsLoop: the pairs are reported but not stored.
RECURSIVE SettingsLoop_ReportsOnly(_, _, _)
SettingsLoop_ReportsOnly(st0, settings, i) ==
  The({(IF i > Len(settings) \/ st.err # NO_ERROR THEN st
        ELSE IF SettingRejected(settings[i][1], settings[i][2])
             THEN [st EXCEPT !.err = PROTOCOL_ERROR]
        ELSE SettingsLoop_ReportsOnly(
               [st EXCEPT !.list = Append(@, settings[i])], settings, i + 1))
       : st \in {st0}})

\* The for loop of parseSettings from pair i on: st holds the codec, the
\* settingsList built so far and err (set by the return inside the switch).
RECURSIVE SettingsLoop(_, _, _)
SettingsLoop(st0, settings, i) ==
  The({(IF i > Len(settings) \/ st.err # NO_ERROR THEN st
        ELSE LET id == settings[i][1]
                 value == settings[i][2]
                 c1 == IF id = HEADER_TABLE_SIZE
                       THEN [st.c EXCEPT !.encoderHeaderTableSize = value]
                       ELSE st.c
             IN IF SettingRejected(id, value)
                THEN [st EXCEPT !.err = PROTOCOL_ERROR]
                ELSE SettingsLoop(
                       [st EXCEPT !.c = [c1 EXCEPT !.ingressSettings_ =
                                             setSetting(@, id, value)],
                                  !.list = Append(@, <<id, value>>)],
                       settings, i + 1))
       : st \in {st0}})

parseSettings(c, p) ==
  LET h == c.curHeader_ IN
  IF FramerParse(h, p) # NO_ERROR THEN R(c, FramerParse(h, p), <<>>)
  ELSE IF ACK \in h.flags THEN R(c, NO_ERROR, <<CB("onSettingsAck", 0)>>)
  ELSE The({(IF st.err # NO_ERROR THEN R(st.c, st.err, <<>>)
             ELSE R(st.c, NO_ERROR,
                    <<[CB("onSettings", 0) EXCEPT !.list = st.list]>>))
            : st \in {SettingsLoop([c |-> c, list |-> <<>>, err |-> NO_ERROR],
                                   p.settings, 1)}})

\* Mutant of parsePushPromise: the ENABLE_PUSH setting is not consulted.
parsePushPromise_PushAlwaysEnabled(c, p) ==
  LET h == c.curHeader_
      chk == checkNewStream(c, p.promised)
  IN IF c.transportDirection_ # UPSTREAM THEN R(c, PROTOCOL_ERROR, <<>>)
     ELSE IF FramerParse(h, p) # NO_ERROR THEN R(c, FramerParse(h, p), <<>>)
     ELSE IF chk.err # NO_ERROR THEN R(chk.c, chk.err, <<>>)
     ELSE IF chk.c.sessionClosing_ = CLOSED THEN R(chk.c, NO_ERROR, <<>>)
     ELSE parseHeadersImpl(chk.c, p.block, p.promised)

parsePushPromise(c, p) ==
  LET h == c.curHeader_
      chk == checkNewStream(c, p.promised)
  IN IF c.transportDirection_ # UPSTREAM THEN R(c, PROTOCOL_ERROR, <<>>)
     ELSE IF getSetting(c.egressSettings_, ENABLE_PUSH, kMaxUInt32) # U32(1)
     THEN R(c, PROTOCOL_ERROR, <<>>)
     ELSE IF FramerParse(h, p) # NO_ERROR THEN R(c, FramerParse(h, p), <<>>)
     ELSE IF chk.err # NO_ERROR THEN R(chk.c, chk.err, <<>>)
     ELSE IF chk.c.sessionClosing_ = CLOSED THEN R(chk.c, NO_ERROR, <<>>)
     ELSE parseHeadersImpl(chk.c, p.block, p.promised)

parsePing(c, p) ==
  IF FramerParse(c.curHeader_, p) # NO_ERROR
  THEN R(c, FramerParse(c.curHeader_, p), <<>>)
  ELSE R(c, NO_ERROR,
         <<[CB(IF ACK \in c.curHeader_.flags THEN "onPingReply"
               ELSE "onPingRequest", 0) EXCEPT !.n = p.opaque]>>)

\* Mutant of parseGoaway: every well-formed GOAWAY is taken, whatever its id.
parseGoaway_AlwaysAssign(c, p) ==
  IF FramerParse(c.curHeader_, p) # NO_ERROR
  THEN R(c, FramerParse(c.curHeader_, p), <<>>)
  ELSE R([c EXCEPT !.ingressGoawayAck_ = U32(p.lastGood)], NO_ERROR,
         <<[CB("onGoaway", p.lastGood) EXCEPT !.codecStatus = p.code]>>)

parseGoaway(c, p) ==
  IF FramerParse(c.curHeader_, p) # NO_ERROR
  THEN R(c, FramerParse(c.curHeader_, p), <<>>)
  ELSE IF U32Less(U32(p.lastGood), c.ingressGoawayAck_)
  THEN R([c EXCEPT !.ingressGoawayAck_ = U32(p.lastGood)], NO_ERROR,
         <<[CB("onGoaway", p.lastGood) EXCEPT !.codecStatus = p.code]>>)
  ELSE R(c, NO_ERROR, <<>>)

parseWindowUpdate(c, p) ==
  IF FramerParse(c.curHeader_, p) # NO_ERROR
  THEN R(c, FramerParse(c.curHeader_, p), <<>>)
  ELSE IF p.delta = 0
  THEN R(c, IF c.curHeader_.stream = 0 THEN PROTOCOL_ERROR ELSE NO_ERROR, <<>>)
  ELSE R(c, NO_ERROR,
         <<[CB("onWindowUpdate", c.curHeader_.stream) EXCEPT !.n = p.delta]>>)

\* The name of the handler the switch of parseFrame selects for a type.
HandlerOf(type) ==
  CASE type = "DATA" -> "parseData"
    [] type = "HEADERS" -> "parseHeaders"
    [] type = "PRIORITY" -> "parsePriority"
    [] type = "RST_STREAM" -> "parseRstStream"
    [] type = "SETTINGS" -> "parseSettings"
    [] type = "PUSH_PROMISE" -> "parsePushPromise"
    [] type = "PING" -> "parsePing"
    [] type = "GOAWAY" -> "parseGoaway"
    [] type = "WINDOW_UPDATE" -> "parseWindowUpdate"
    [] type = "CONTINUATION" -> "parseContinuation"
    [] OTHER -> "skip"

Dispatch(c, p) ==
  LET type == c.curHeader_.type IN
  CASE type = "DATA" -> parseData(c, p)
    [] type = "HEADERS" -> parseHeaders(c, p)
    [] type = "PRIORITY" -> parsePriority(c, p)
    [] type = "RST_STREAM" -> parseRstStream(c, p)
    [] type = "SETTINGS" -> parseSettings(c, p)
    [] type = "PUSH_PROMISE" -> parsePushPromise(c, p)
    [] type = "PING" -> parsePing(c, p)
    [] type = "GOAWAY" -> parseGoaway(c, p)
    [] type = "WINDOW_UPDATE" -> parseWindowUpdate(c, p)
    [] type = "CONTINUATION" -> parseContinuation(c, p)
    [] OTHER -> R(c, NO_ERROR, <<>>)

\* Mutant of ContinuationInterlock: the stream id of a CONTINUATION is not
\* compared with the expected one.
ContinuationInterlock_AnyStream(c) ==
  \/ /\ c.expectedContinuationStream_ # 0
     /\ c.curHeader_.type # "CONTINUATION"
  \/ /\ c.expectedContinuationStream_ = 0
     /\ c.curHeader_.type = "CONTINUATION"

\* The two checks at the head of parseFrame: TRUE when the frame is refused.
ContinuationInterlock(c) ==
  \/ /\ c.expectedContinuationStream_ # 0
     /\ \/ c.curHeader_.type # "CONTINUATION"
        \/ c.expectedContinuationStream_ # c.curHeader_.stream
  \/ /\ c.expectedContinuationStream_ = 0
     /\ c.curHeader_.type = "CONTINUATION"

\* parseFrame: handler is the per-type handler that ran, "" when none did.
parseFrame(c, p) ==
  IF ContinuationInterlock(c)
  THEN [c |-> c, err |-> PROTOCOL_ERROR, calls |-> <<>>, handler |-> ""]
  ELSE The({(LET h == c.curHeader_ IN
             [c |-> [r.c EXCEPT !.expectedContinuationStream_ =
                        IF frameAffectsCompression(h.type) /\
                           END_HEADERS \notin h.flags
                        THEN h.stream ELSE 0],
              err |-> r.err, calls |-> r.calls, handler |-> HandlerOf(h.type)])
            : r \in {Dispatch(c, p)}})

isWaitingToDrain(c) == c.sessionClosing_ = FIRST_GOAWAY_SENT

\* Mutant of isReusable: a draining codec counts as reusable on either side.
isReusable_AnyDirection(c) ==
  /\ \/ c.sessionClosing_ = OPEN
     \/ isWaitingToDrain(c)
  /\ c.ingressGoawayAck_ = kMaxUInt32

isReusable(c) ==
  /\ \/ c.sessionClosing_ = OPEN
     \/ c.transportDirection_ = DOWNSTREAM /\ isWaitingToDrain(c)
  /\ c.ingressGoawayAck_ = kMaxUInt32

\* checkConnectionError: the callbacks it invokes for a loop that ended err.
checkConnectionError(err) ==
  IF err # NO_ERROR
  THEN <<[CB("onError", 0) EXCEPT !.codecStatus = err, !.newTxn = FALSE]>>
  ELSE <<>>

(***************************************************************************)
(* The byte stream: tokens with their sizes.  A junk token is what is left *)
(* of a token when a byte count cuts it.                                   *)
(***************************************************************************)
Tok(kind, size, ok, h, p) ==
  [kind |-> kind, size |-> size, ok |-> ok, h |-> h, p |-> p]

PrefaceTok(ok) == Tok("preface", kConnectionPrefaceLength, ok, NullHeader, NullPayload)
HeaderTok(h) == Tok("header", kFrameHeaderSize, TRUE, h, NullPayload)
PayloadTok(h, p) == Tok("payload", h.length, TRUE, h, p)
JunkTok(n) == Tok("junk", n, FALSE, NullHeader, NullPayload)

\* The bytes of one frame: its common header, then its payload when it has one.
FrameTokens(f) ==
  <<HeaderTok(f.h)>> \o (IF f.h.length > 0 THEN <<PayloadTok(f.h, f.p)>> ELSE <<>>)

RECURSIVE TotalSize(_)
TotalSize(toks0) ==
  The({(IF toks = <<>> THEN 0 ELSE Head(toks).size + TotalSize(Tail(toks)))
       : toks \in {toks0}})

\* The byte stream without its first n bytes.
RECURSIVE DropBytes(_, _)
DropBytes(toks0, n) ==
  The({(IF n = 0 \/ toks = <<>> THEN toks
        ELSE IF Head(toks).size <= n
             THEN DropBytes(Tail(toks), n - Head(toks).size)
        ELSE <<JunkTok(Head(toks).size - n)>> \o Tail(toks))
       : toks \in {toks0}})

GarbageHeader == FrameHeader("GARBAGE", {}, 0, 0)

\* cursor.readFixedString(24) == kConnectionPreface
ReadPreface(toks) ==
  toks # <<>> /\ Head(toks).kind = "preface" /\ Head(toks).ok

\* parseFrameHeader: the common header the next 9 bytes hold.
ReadHeader(toks) ==
  IF toks # <<>> /\ Head(toks).kind = "header" THEN Head(toks).h
  ELSE GarbageHeader

\* The payload fields the next frameLen bytes hold.
ReadPayload(toks, frameLen) ==
  IF frameLen = 0 THEN NullPayload
  ELSE IF toks # <<>> /\ Head(toks).kind = "payload" /\ Head(toks).size = frameLen
  THEN Head(toks).p
  ELSE GarbagePayload

(***************************************************************************)
(* onIngress.  The loop state s: the codec, the bytes from the cursor on   *)
(* (toks) of which bufLen are in the buffer, parsed, connError, the        *)
(* callbacks so far and one trace entry per iteration that consumed bytes. *)
(***************************************************************************)
TraceEntry(step, pre, post, p, err, calls, handler) ==
  [step |-> step, hdr |-> post.curHeader_, p |-> p, pre |-> pre, post |-> post,
   err |-> err, calls |-> calls, handler |-> handler]

PrefaceStep(s) ==
  LET err == IF ReadPreface(s.toks) THEN NO_ERROR ELSE PROTOCOL_ERROR
      c1 == [s.c EXCEPT !.needConnectionPreface_ = FALSE]
  IN [s EXCEPT !.c = c1,
               !.toks = DropBytes(@, kConnectionPrefaceLength),
               !.bufLen = @ - kConnectionPrefaceLength,
               !.parsed = @ + kConnectionPrefaceLength,
               !.connError = err,
               !.trace = Append(@, TraceEntry("preface", s.c, c1, NullPayload,
                                              err, <<>>, ""))]

FrameHeaderStep(s) ==
  LET h == ReadHeader(s.toks)
      c1 == [s.c EXCEPT !.needHeader_ = FALSE, !.curHeader_ = h]
      err == IF U32Less(maxRecvFrameSize(c1), U32(h.length)) THEN FRAME_SIZE_ERROR
             ELSE NO_ERROR
  IN [s EXCEPT !.c = c1,
               !.toks = DropBytes(@, kFrameHeaderSize),
               !.bufLen = @ - kFrameHeaderSize,
               !.parsed = @ + kFrameHeaderSize,
               !.connError = err,
               !.trace = Append(@, TraceEntry("header", s.c, c1, NullPayload,
                                              err, <<>>, ""))]

FramePayloadStep(s) ==
  LET frameLen == s.c.curHeader_.length
      c1 == [s.c EXCEPT !.needHeader_ = TRUE]
      p == ReadPayload(s.toks, frameLen)
  IN The({[s EXCEPT !.c = r.c,
                     !.toks = DropBytes(@, frameLen),
                     !.bufLen = @ - frameLen,
                     !.parsed = @ + frameLen,
                     !.connError = r.err,
                     !.calls = @ \o r.calls,
                     !.trace = Append(@, TraceEntry("frame", s.c, r.c, p, r.err,
                                                    r.calls, r.handler))]
          : r \in {parseFrame(c1, p)}})

\* Mutant of IngressLoop: the loop goes on after a parse step failed.
RECURSIVE IngressLoop_NoStop(_)
IngressLoop_NoStop(s0) ==
  The({(IF s.c.needConnectionPreface_
        THEN IF s.bufLen >= kConnectionPrefaceLength
             THEN IngressLoop_NoStop(PrefaceStep(s)) ELSE s
        ELSE IF s.c.needHeader_
        THEN IF s.bufLen >= kFrameHeaderSize
             THEN IngressLoop_NoStop(FrameHeaderStep(s)) ELSE s
        ELSE IF s.bufLen >= s.c.curHeader_.length
             THEN IngressLoop_NoStop(FramePayloadStep(s)) ELSE s)
       : s \in {s0}})

RECURSIVE IngressLoop(_)
IngressLoop(s0) ==
  The({(IF s.connError # NO_ERROR THEN s
        ELSE IF s.c.needConnectionPreface_
        THEN IF s.bufLen >= kConnectionPrefaceLength
             THEN IngressLoop(PrefaceStep(s)) ELSE s
        ELSE IF s.c.needHeader_
        THEN IF s.bufLen >= kFrameHeaderSize
             THEN IngressLoop(FrameHeaderStep(s)) ELSE s
        ELSE IF s.bufLen >= s.c.curHeader_.length
             THEN IngressLoop(FramePayloadStep(s)) ELSE s)
       : s \in {s0}})

\* Mutant of onIngress: the frame header parsed by an earlier call is not
\* kept (every call starts by reading a header).
onIngress_ForgetsHeader(c, toks, bufLen) ==
  The({([c |-> s.c, parsed |-> s.parsed, connError |-> s.connError,
         calls |-> s.calls \o checkConnectionError(s.connError),
         trace |-> s.trace, pre |-> c])
       : s \in {IngressLoop([c |-> [c EXCEPT !.needHeader_ = TRUE],
                             toks |-> toks, bufLen |-> bufLen,
                             parsed |-> 0, connError |-> NO_ERROR,
                             calls |-> <<>>, trace |-> <<>>])}})

\* onIngress(buf) on a buffer holding the first bufLen bytes of toks.
onIngress(c, toks, bufLen) ==
  The({([c |-> s.c, parsed |-> s.parsed, connError |-> s.connError,
         calls |-> s.calls \o checkConnectionError(s.connError),
         trace |-> s.trace, pre |-> c])
       : s \in {IngressLoop([c |-> c, toks |-> toks, bufLen |-> bufLen,
                             parsed |-> 0, connError |-> NO_ERROR,
                             calls |-> <<>>, trace |-> <<>>])}})

(***************************************************************************)
(* generateGoaway.                                                         *)
(***************************************************************************)
kGoawayFrameSize == 17   \* 9-byte common header, last stream id, error code

\* Mutant of GoawayNextState: the second GOAWAY leaves the session draining.
GoawayNextState_StaysDraining(closing, lastStream, statusCode) ==
  CASE closing = OPEN ->
         IF lastStream = kMaxInt32 /\ statusCode = NO_ERROR
         THEN FIRST_GOAWAY_SENT ELSE CLOSED
    [] closing = FIRST_GOAWAY_SENT -> FIRST_GOAWAY_SENT
    [] OTHER -> CLOSED

GoawayNextState(closing, lastStream, statusCode) ==
  CASE closing = OPEN ->
         IF lastStream = kMaxInt32 /\ statusCode = NO_ERROR
         THEN FIRST_GOAWAY_SENT ELSE CLOSED
    [] closing = FIRST_GOAWAY_SENT -> CLOSED
    [] OTHER -> CLOSED

\* The codec after the call, the frames written and the value returned.
generateGoaway(c, lastStream, statusCode) ==
  IF c.sessionClosing_ = CLOSED
  THEN [c |-> c, frames |-> <<>>, ret |-> 0]
  ELSE [c |-> [c EXCEPT !.sessionClosing_ =
                  GoawayNextState(c.sessionClosing_, lastStream, statusCode)],
        frames |-> <<[type |-> "GOAWAY", lastStream |-> lastStream,
                      code |-> statusCode]>>,
        ret |-> kGoawayFrameSize]

(***************************************************************************)
(* generateHeader and generateBody.  The encoded header block and the body *)
(* chain are byte ranges: a frame written carries the bytes                *)
(* from .. from + len - 1 of the buffer it was split from.  `stream` is    *)
(* the stream id of the frame's common header, `promised` the promised     *)
(* stream id in the payload of a PUSH_PROMISE.                             *)
(***************************************************************************)
\* HTTP2Codec::kHeaderSplitSize{http2::kMaxFramePayloadLength}
kHeaderSplitSize == kMaxFramePayloadLength

OutFrame(type, flags, stream, promised, from, len) ==
  [type |-> type, flags |-> flags, stream |-> stream, promised |-> promised,
   from |-> from, len |-> len]

\* The frame http2::writeHeaders appends (no priority, no padding, no EOM).
writeHeaders(stream, from, len, endHeaders) ==
  OutFrame("HEADERS", IF endHeaders THEN {END_HEADERS} ELSE {}, stream, 0, from, len)

\* The frame http2::writePushPromise appends: it travels on the associated
\* stream and names the promised one.
writePushPromise(associatedStream, promisedStream, from, len, endHeaders) ==
  OutFrame("PUSH_PROMISE", IF endHeaders THEN {END_HEADERS} ELSE {},
           associatedStream, promisedStream, from, len)

writeContinuation(stream, endHeaders, from, len) ==
  OutFrame("CONTINUATION", IF endHeaders THEN {END_HEADERS} ELSE {}, stream, 0,
           from, len)

writeData(stream, from, len, endStream) ==
  OutFrame("DATA", IF endStream THEN {END_STREAM} ELSE {}, stream, 0, from, len)

\* The byte count a write function of the serializer returns.
Written(frame) == kFrameHeaderSize + frame.len

Min(a, b) == IF a < b THEN a ELSE b

\* initPerHopHeaders: the header names whose code is in perHopHeaderCodes_.
PerHopHeader(name) ==
  name \in {"Connection", "Host", "Keep-Alive", "Proxy-Connection",
            "Transfer-Encoding", "Upgrade"}

IsHost(e) == e.n = "Host"

\* headers.getSingleOrEmpty(HTTP_HEADER_HOST)
getSingleOrEmptyHost(headers) ==
  LET hosts == SelectSeq(headers, IsHost) IN
  IF Len(hosts) = 1 THEN hosts[1].v ELSE ""

\* The test of the forEachWithCode lambda: the header is passed on.
Forwarded(e) == ~PerHopHeader(e.n) /\ e.n # "" /\ ~StartsWithColon(e.n)

\* folly::to<string>(msg.getStatusCode())
StatusString(code) ==
  CASE code = 200 -> "200"
    [] code = 404 -> "404"
    [] OTHER -> "0"

\* The vector allHeaders that generateHeader hands to the encoder.
AllHeaders(msg) ==
  (IF msg.isRequest
   THEN <<H(":method", msg.method),
          H(":scheme", IF msg.secure THEN "https" ELSE "http"),
          H(":path", msg.url)>>
        \o (IF getSingleOrEmptyHost(msg.headers) # ""
            THEN <<H(":authority", getSingleOrEmptyHost(msg.headers))>>
            ELSE <<>>)
   ELSE <<H(":status", StatusString(msg.status))>>)
  \o SelectSeq(msg.headers, Forwarded)

\* The encoded size of one header field: a value is one byte, or stands for
\* a run of bytes as long as its name says.
SplitLess3 == "<kHeaderSplitSize - 3 bytes>"
SplitLong == "<kHeaderSplitSize bytes>"

EncodedLen(e) ==
  CASE e.v = SplitLess3 -> kHeaderSplitSize - 3
    [] e.v = SplitLong -> kHeaderSplitSize
    [] OTHER -> 1

RECURSIVE EncodedSize(_)
EncodedSize(headers) ==
  IF headers = <<>> THEN 0
  ELSE EncodedLen(Head(headers)) + EncodedSize(Tail(headers))

\* headerCodec_.encode(allHeaders): the block and its length in bytes.
HeaderEncode(allHeaders) ==
  [headers |-> allHeaders, len |-> EncodedSize(allHeaders)]

\* The while loop of generateHeader: rest bytes are left in the queue, the
\* next one is byte `from` of the block.
RECURSIVE ContinuationFrames(_, _, _, _)
ContinuationFrames(stream, from, rest, endHeaders) ==
  IF endHeaders THEN <<>>
  ELSE LET len == Min(kHeaderSplitSize, rest) IN
       <<writeContinuation(stream, rest - len = 0, from, len)>>
       \o ContinuationFrames(stream, from + len, rest - len, rest - len = 0)

\* generateHeader: the frames appended to writeBuf and the value of *size.
generateHeader(c, stream, msg, assocStream) ==
  LET out == HeaderEncode(AllHeaders(msg))
      len == Min(kHeaderSplitSize, out.len)
      endHeaders == out.len - len = 0
      first == IF assocStream = 0
               THEN writeHeaders(stream, 0, len, endHeaders)
               ELSE writePushPromise(assocStream, stream, 0, len, endHeaders)
  IN [c |-> c,
      frames |-> IF out.len > 0
                 THEN <<first>> \o ContinuationFrames(stream, len, out.len - len,
                                                      endHeaders)
                 ELSE <<>>,
      size |-> out.len, ret |-> 0]

\* The value of a setting that fits a signed integer.
ToInt(u) == u.hi * 65536 + u.lo

\* The while loop of generateBody and the writeData behind it.
RECURSIVE BodyFrames(_, _, _, _, _)
BodyFrames(max, stream, from, rest, eom) ==
  IF rest > max
  THEN <<writeData(stream, from, max, FALSE)>>
       \o BodyFrames(max, stream, from + max, rest - max, eom)
  ELSE <<writeData(stream, from, rest, eom)>>

RECURSIVE SumWritten(_)
SumWritten(frames) ==
  IF frames = <<>> THEN 0
  ELSE Written(Head(frames)) + SumWritten(Tail(frames))

\* Mutant of generateBody: a chain as long as the limit is split too.
generateBody_SplitsAtLimit(c, stream, chainLength, eom) ==
  LET max == ToInt(maxSendFrameSize(c))
      frames == IF chainLength = max
                THEN <<writeData(stream, 0, max, FALSE),
                       writeData(stream, max, 0, eom)>>
                ELSE BodyFrames(max, stream, 0, chainLength, eom)
  IN [c |-> c, frames |-> frames, size |-> 0, ret |-> SumWritten(frames)]

\* generateBody on a chain of chainLength bytes.
generateBody(c, stream, chainLength, eom) ==
  LET frames == BodyFrames(ToInt(maxSendFrameSize(c)), stream, 0, chainLength, eom)
  IN [c |-> c, frames |-> frames, size |-> 0, ret |-> SumWritten(frames)]

(***************************************************************************)
(* Inputs: the frames a peer sends.                                        *)
(***************************************************************************)
Frame(type, flags, stream, length, p) ==
  [h |-> FrameHeader(type, flags, stream, length), p |-> p]

ReqBlock == <<H(":method", "GET"), H(":scheme", "https"), H(":path", "/")>>
ReqHead == <<H(":method", "GET")>>
ReqTail == <<H(":scheme", "https"), H(":path", "/")>>
NoSchemeBlock == <<H(":method", "GET"), H(":path", "/")>>
RespBlock == <<H(":status", "200")>>
BadBlock == <<H(Garbage, "")>>

\* A frame carrying a header-block fragment: one byte per entry.
BlockFrame(type, flags, stream, block) ==
  Frame(type, flags, stream, Len(block), [NullPayload EXCEPT !.block = block])

PushFrame(flags, stream, promised, block) ==
  Frame("PUSH_PROMISE", flags, stream, 4 + Len(block),
        [NullPayload EXCEPT !.block = block, !.promised = promised])

GoawayFrame(lastGood, code) ==
  Frame("GOAWAY", {}, 0, 8, [NullPayload EXCEPT !.lastGood = lastGood, !.code = code])

SettingsFrame(flags, settings) ==
  Frame("SETTINGS", flags, 0, 6 * Len(settings),
        [NullPayload EXCEPT !.settings = settings])

WindowUpdateFrame(stream, delta) ==
  Frame("WINDOW_UPDATE", {}, stream, 4, [NullPayload EXCEPT !.delta = delta])

StreamFrames ==
  {BlockFrame("HEADERS", {END_HEADERS}, 0, ReqBlock),
   BlockFrame("HEADERS", {END_HEADERS}, 1, ReqBlock),
   BlockFrame("HEADERS", {END_HEADERS}, 2, ReqBlock),
   BlockFrame("HEADERS", {END_HEADERS}, 3, ReqBlock),
   BlockFrame("HEADERS", {END_HEADERS}, 3, NoSchemeBlock),
   BlockFrame("HEADERS", {}, 1, ReqHead),
   BlockFrame("CONTINUATION", {END_HEADERS}, 1, ReqTail),
   BlockFrame("CONTINUATION", {END_HEADERS}, 3, ReqTail),
   PushFrame({END_HEADERS}, 1, 2, ReqBlock),
   PushFrame({END_HEADERS}, 1, 3, ReqBlock),
   Frame("DATA", {END_STREAM}, 1, 2, NullPayload),
   Frame("DATA", {}, 1, kMaxFramePayloadLengthMin + 1, NullPayload)}

\* The byte streams of at most k frames of a set.
RECURSIVE FrameSeqs(_, _)
FrameSeqs(frames, k) ==
  IF k = 0 THEN {<<>>}
  ELSE LET shorter == FrameSeqs(frames, k - 1) IN
       shorter \cup {s \o FrameTokens(f) : s \in shorter, f \in frames}

\* Where a delivery can end: at the end of a token, or one byte into it.
RECURSIVE CutPoints(_, _)
CutPoints(toks, off) ==
  IF toks = <<>> THEN {off}
  ELSE {off} \cup (IF Head(toks).size > 1 THEN {off + 1} ELSE {})
       \cup CutPoints(Tail(toks), off + Head(toks).size)

(***************************************************************************)
(* The state machine.                                                      *)
(***************************************************************************)
NoCall ==
  [c |-> NewCodec(DOWNSTREAM), parsed |-> 0, connError |-> NO_ERROR,
   calls |-> <<>>, trace |-> <<>>, pre |-> NewCodec(DOWNSTREAM)]

NoGen ==
  [op |-> "", lastStream |-> 0, code |-> NO_ERROR, frames |-> <<>>, ret |-> 0,
   pre |-> NewCodec(DOWNSTREAM), stream |-> 0, assoc |-> 0, msg |-> NoMsg,
   size |-> 0, chainLength |-> 0, eom |-> FALSE]

\* A header block: the frame that opened it, whether that frame was dropped
\* (accepted while CLOSED), the first error a frame of the block returned,
\* the fragments and callbacks of its frames so far, whether END_HEADERS came;
\* the fragments of its frames whose handler returned no error before the
\* decoder ran (accepted), whether its last frame made parseHeadersImpl call
\* the decoder, and the bytes the decoder was handed.
NoBlock ==
  [opener |-> "", stream |-> 0, promised |-> 0, dropped |-> FALSE,
   err |-> NO_ERROR, block |-> <<>>, calls |-> <<>>, frames |-> 0, done |-> TRUE,
   accepted |-> <<>>, decoded |-> FALSE, input |-> <<>>]

NoHist == [sent |-> <<>>, delivered |-> 0, log |-> <<>>, total |-> 0,
           errLog |-> <<>>, errTotal |-> 0, erred |-> FALSE,
           open |-> NoBlock, blocks |-> <<>>]

\* A server's peer starts by sending a connection preface (right or wrong).
InitCodec ==
  /\ \E d \in {DOWNSTREAM, UPSTREAM} :
       /\ codec = NewCodec(d)
       /\ wire \in (IF d = DOWNSTREAM
                    THEN {<<PrefaceTok(TRUE)>>, <<PrefaceTok(FALSE)>>}
                    ELSE {<<>>})
  /\ avail = 0
  /\ lastCall = NoCall
  /\ lastGen = NoGen
  /\ goaways = <<>>
  /\ gotGoaway = FALSE

Init == InitCodec /\ hist = NoHist

GoawayParsed(r) ==
  \E i \in 1..Len(r.trace) :
     r.trace[i].handler = "parseGoaway" /\ r.trace[i].err = NO_ERROR

\* The session is single-threaded: it makes its next call only after it has
\* dealt with the result of the last one.
Idle == lastCall = NoCall /\ lastGen = NoGen

\* The peer's new bytes newToks join the wire, the caller's buffer then holds
\* the first n unconsumed bytes, and onIngress runs on it.
IngressCall(newToks, n) ==
  /\ Idle
  /\ \E r \in {onIngress(codec, wire \o newToks, n)} :
       /\ codec' = r.c
       /\ lastCall' = r
       /\ gotGoaway' = (gotGoaway \/ GoawayParsed(r))
  /\ wire' = wire \o newToks
  /\ avail' = n
  /\ UNCHANGED <<lastGen, goaways>>

\* onIngress on a buffer holding every unconsumed byte: what the earlier calls
\* left, then at most MaxNew new frames of the set.
OnIngressWhole(frames) ==
  \E newToks \in FrameSeqs(frames, MaxNew) :
    /\ Len(wire \o newToks) <= MaxWire
    /\ IngressCall(newToks, TotalSize(wire \o newToks))
    /\ UNCHANGED hist

OnIngress == OnIngressWhole(StreamFrames)

\* The caller drops the bytes onIngress reported as consumed from its buffer.
TrimBuffer ==
  /\ lastCall # NoCall
  /\ wire' = DropBytes(wire, lastCall.parsed)
  /\ avail' = avail - lastCall.parsed
  /\ lastCall' = NoCall
  /\ UNCHANGED <<codec, lastGen, goaways, gotGoaway>>

TrimIngress == TrimBuffer /\ UNCHANGED hist

GoawayArgs == {kMaxInt32, 3} \X {NO_ERROR, PROTOCOL_ERROR}

GenerateGoawayWith(args) ==
  \E a \in args :
    LET g == generateGoaway(codec, a[1], a[2]) IN
    /\ Idle
    /\ codec' = g.c
    /\ goaways' = goaways \o g.frames
    /\ lastGen' = [NoGen EXCEPT !.op = "generateGoaway", !.lastStream = a[1],
                                !.code = a[2], !.frames = g.frames,
                                !.ret = g.ret, !.pre = codec]
    /\ UNCHANGED <<wire, avail, lastCall, gotGoaway, hist>>

GenerateGoaway == GenerateGoawayWith(GoawayArgs)

\* The caller sends what the generate call wrote.
DrainEgress ==
  /\ lastGen # NoGen
  /\ lastGen' = NoGen
  /\ UNCHANGED <<codec, wire, avail, lastCall, goaways, gotGoaway, hist>>

Next == OnIngress \/ TrimIngress \/ GenerateGoaway \/ DrainEgress

Spec == Init /\ [][Next]_vars

(***************************************************************************)
(* The shutdown exchange: the peer's GOAWAY frames (well-formed with three *)
(* last-stream ids, and one the serializer rejects), next to frames that   *)
(* open and close a header block, and the codec's own GOAWAYs.             *)
(***************************************************************************)
GoawayFrames ==
  {GoawayFrame(kMaxInt32, NO_ERROR),
   GoawayFrame(3, NO_ERROR),
   GoawayFrame(1, PROTOCOL_ERROR),
   Frame("GOAWAY", {}, 0, 4, [NullPayload EXCEPT !.ferr = FRAME_SIZE_ERROR]),
   BlockFrame("HEADERS", {END_HEADERS}, 1, ReqBlock),
   BlockFrame("HEADERS", {}, 3, ReqHead)}

OnIngressGoaway == OnIngressWhole(GoawayFrames)

NextGoaway == OnIngressGoaway \/ TrimIngress \/ GenerateGoaway \/ DrainEgress

SpecGoaway == Init /\ [][NextGoaway]_vars

(***************************************************************************)
(* Properties.  They read the record of the call that has just returned:   *)
(* lastCall.trace has one entry per loop iteration of onIngress (the codec *)
(* before and after it, the frame, the error and the callbacks).           *)
(***************************************************************************)
FrameEntries == {i \in 1..Len(lastCall.trace) : lastCall.trace[i].step = "frame"}

Entry(i) == lastCall.trace[i]

\* The serializer accepted the payload of entry e.
WellFormed(e) == FramerParse(e.hdr, e.p) = NO_ERROR

Refused(e) == e.err = PROTOCOL_ERROR /\ e.handler = "" /\ e.calls = <<>>

\* C2: while a header block is open (expectedContinuationStream_ # 0) a frame
\* reaches its handler only if it is a CONTINUATION on that very stream, every
\* other frame yields PROTOCOL_ERROR with no handler run; and with no block
\* open a CONTINUATION yields PROTOCOL_ERROR with no handler run.
C2_ContinuationInterlock ==
  \A i \in FrameEntries :
    LET e == Entry(i)
        expected == e.pre.expectedContinuationStream_
        isCont == e.hdr.type = "CONTINUATION"
    IN /\ (expected # 0 /\ ~(isCont /\ e.hdr.stream = expected)) => Refused(e)
       /\ (expected = 0 /\ isCont) => Refused(e)
       /\ (expected # 0 /\ isCont /\ e.hdr.stream = expected)
            => e.handler = "parseContinuation"

C2_Witness ==
  \E i \in FrameEntries :
    /\ Entry(i).pre.expectedContinuationStream_ = 1
    /\ Entry(i).hdr.type = "CONTINUATION"
    /\ Entry(i).hdr.stream = 3
    /\ Refused(Entry(i))

\* C3 (as claimed): on a downstream codec every HEADERS frame whose stream id
\* is 0 or is not greater than lastStreamID_ is rejected with PROTOCOL_ERROR.
C3_NewStreamStrictlyGreater ==
  \A i \in FrameEntries :
    LET e == Entry(i) IN
    (/\ e.pre.transportDirection_ = DOWNSTREAM
     /\ e.hdr.type = "HEADERS"
     /\ WellFormed(e)
     /\ (e.hdr.stream = 0 \/ e.hdr.stream <= e.pre.lastStreamID_))
    => e.err = PROTOCOL_ERROR

\* C4: a HEADERS frame on an even stream id is rejected with PROTOCOL_ERROR by
\* a downstream and by an upstream codec, and so is, by an upstream codec, a
\* PUSH_PROMISE whose promised stream id is odd; a rejected frame causes no
\* callback.  (Frames whose payload the serializer accepts.)
C4_StreamIdParity ==
  \A i \in FrameEntries :
    LET e == Entry(i) IN
    (/\ WellFormed(e)
     /\ \/ e.hdr.type = "HEADERS" /\ e.hdr.stream % 2 = 0
        \/ /\ e.hdr.type = "PUSH_PROMISE"
           /\ e.pre.transportDirection_ = UPSTREAM
           /\ e.p.promised % 2 = 1)
    => e.err = PROTOCOL_ERROR /\ e.calls = <<>>

C4_Witness ==
  \E i \in FrameEntries :
    /\ Entry(i).pre.transportDirection_ = UPSTREAM
    /\ Entry(i).handler = "parsePushPromise"
    /\ Entry(i).pre.lastStreamID_ = 0
    /\ Entry(i).p.promised = 3
    /\ Entry(i).err = PROTOCOL_ERROR

\* The handler of entry e called checkNewStream: parseHeaders on a downstream
\* codec, parsePushPromise on an upstream codec with push enabled, once the
\* serializer accepted the payload.
NewStreamChecked(e) ==
  /\ WellFormed(e)
  /\ \/ e.handler = "parseHeaders" /\ e.pre.transportDirection_ = DOWNSTREAM
     \/ /\ e.handler = "parsePushPromise"
        /\ e.pre.transportDirection_ = UPSTREAM
        /\ getSetting(e.pre.egressSettings_, ENABLE_PUSH, kMaxUInt32) = U32(1)

\* The stream id that call validated.
CheckedId(e) ==
  IF e.handler = "parsePushPromise" THEN e.p.promised ELSE e.hdr.stream

\* C24 (as claimed): lastStreamID_ is the largest stream id that has passed
\* checkNewStream: a frame whose id (the stream of a HEADERS frame on a
\* downstream codec, the promised stream of a PUSH_PROMISE on an upstream
\* one) passes the check leaves lastStreamID_ equal to that id, every other
\* step leaves it as it was, and it never decreases.
C24_LastStreamIsLargestValidated ==
  \A i \in 1..Len(lastCall.trace) :
    LET e == Entry(i)
        passed == /\ e.step = "frame"
                  /\ NewStreamChecked(e)
                  /\ checkNewStream(e.pre, CheckedId(e)).err = NO_ERROR
    IN /\ e.post.lastStreamID_ >= e.pre.lastStreamID_
       /\ IF passed THEN e.post.lastStreamID_ = CheckedId(e)
          ELSE e.post.lastStreamID_ = e.pre.lastStreamID_

\* C28 (as claimed): a frame whose new-stream check returns PROTOCOL_ERROR (id
\* zero, id below the last one, wrong parity) leaves lastStreamID_ as it was.
C28_RejectedStreamLeavesLastId ==
  \A i \in FrameEntries :
    LET e == Entry(i) IN
    (/\ NewStreamChecked(e)
     /\ checkNewStream(e.pre, CheckedId(e)).err = PROTOCOL_ERROR)
    => /\ e.err = PROTOCOL_ERROR
       /\ e.post.lastStreamID_ = e.pre.lastStreamID_

(***************************************************************************)
(* The settings exchange: SETTINGS frames of at most MaxPairs pairs (the   *)
(* values at and next to every limit, an unknown id), the two ACK forms,   *)
(* and a HEADERS frame that leaves a header block open for good.           *)
(***************************************************************************)
UnknownSettingsId == 99

SettingPairs ==
  {<<ENABLE_PUSH, U32(0)>>, <<ENABLE_PUSH, U32(1)>>, <<ENABLE_PUSH, U32(2)>>,
   <<INITIAL_WINDOW_SIZE, U32(kMaxWindowUpdateSize)>>,
   <<INITIAL_WINDOW_SIZE, kTwoTo31>>,
   <<MAX_FRAME_SIZE, U32(kMaxFramePayloadLengthMin - 1)>>,
   <<MAX_FRAME_SIZE, U32(kMaxFramePayloadLengthMin)>>,
   <<MAX_FRAME_SIZE, U32(kMaxFramePayloadLength)>>,
   <<MAX_FRAME_SIZE, U32(kMaxFramePayloadLength + 1)>>,
   <<HEADER_TABLE_SIZE, U32(0)>>,
   <<UnknownSettingsId, kMaxUInt32>>}

RECURSIVE PairSeqs(_)
PairSeqs(k) ==
  IF k = 0 THEN {<<>>}
  ELSE LET shorter == PairSeqs(k - 1) IN
       shorter \cup {Append(s, pr) : s \in shorter, pr \in SettingPairs}

SettingsFrames ==
  {SettingsFrame({}, s) : s \in PairSeqs(MaxPairs)}
  \cup {SettingsFrame({ACK}, <<>>),
        SettingsFrame({ACK}, <<<<ENABLE_PUSH, U32(0)>>>>),
        BlockFrame("HEADERS", {}, 1, ReqHead)}

\* onIngress on a buffer holding one new frame (behind the preface, for the
\* first call), or the frame an earlier call left unconsumed.
OnIngressSettings ==
  \E newToks \in (IF wire # <<>> /\ Head(wire).kind # "preface"
                  THEN {<<>>}
                  ELSE {FrameTokens(f) : f \in SettingsFrames}) :
    /\ IngressCall(newToks, TotalSize(wire \o newToks))
    /\ UNCHANGED hist

NextSettings == OnIngressSettings \/ TrimIngress

SpecSettings == Init /\ [][NextSettings]_vars

\* A pair of a SETTINGS frame that C10 names as invalid.
BadPair(pr) ==
  LET id == pr[1]
      value == pr[2]
  IN \/ id = 2 /\ value \notin {U32(0), U32(1)}
     \/ id = 4 /\ U32Less(U32(2147483647), value)
     \/ id = 5 /\ (U32Less(value, U32(16384)) \/ U32Less(U32(16777215), value))

\* C10: a non-ACK SETTINGS frame (one the serializer accepts and parseSettings
\* handles) yields PROTOCOL_ERROR and no on_settings exactly when one of its
\* pairs has ENABLE_PUSH outside {0,1}, INITIAL_WINDOW_SIZE above 2^31-1 or
\* MAX_FRAME_SIZE outside [16384, 16777215]; with no such pair (unknown ids
\* included) it is accepted and on_settings reports all its pairs.
C10_SettingsValidation ==
  \A i \in FrameEntries :
    LET e == Entry(i)
        pairs == e.p.settings
        bad == \E k \in 1..Len(pairs) : BadPair(pairs[k])
        rejected == /\ e.err = PROTOCOL_ERROR
                    /\ \A k \in 1..Len(e.calls) : e.calls[k].cb # "onSettings"
    IN (e.handler = "parseSettings" /\ WellFormed(e) /\ ACK \notin e.hdr.flags)
       => /\ rejected <=> bad
          /\ ~bad => /\ e.err = NO_ERROR
                      /\ e.calls = <<[CB("onSettings", 0) EXCEPT !.list = pairs]>>
                      /\ \A k \in 1..Len(pairs) :
                           pairs[k][1] \in DOMAIN e.post.ingressSettings_

\* A frame with MAX_FRAME_SIZE = 16384 and an unknown id accepted, after one
\* with MAX_FRAME_SIZE = 16383 was rejected by an earlier call.
C10_Witness ==
  \E i \in FrameEntries :
    /\ Entry(i).handler = "parseSettings"
    /\ Entry(i).p.settings = <<<<5, U32(16384)>>, <<99, [hi |-> 65535, lo |-> 65535]>>>>
    /\ Entry(i).err = NO_ERROR
    /\ Len(Entry(i).calls) = 1
    /\ Entry(i).post.ingressSettings_[5] = U32(16384)

\* The value the last pair of a list with a given id carries.
RECURSIVE LastValue(_, _, _)
LastValue(pairs, id, default) ==
  IF pairs = <<>> THEN default
  ELSE LET last == pairs[Len(pairs)] IN
       IF last[1] = id THEN last[2]
       ELSE LastValue(SubSeq(pairs, 1, Len(pairs) - 1), id, default)

PairIds(pairs) == {pairs[k][1] : k \in 1..Len(pairs)}

\* C11: a non-ACK SETTINGS frame all of whose pairs are valid leaves every pair
\* stored in ingressSettings_ (an id named twice holds its last value, the ids
\* the frame does not name keep theirs) and causes exactly one callback,
\* on_settings, whose list has one entry per pair of the frame, in frame order
\* (the empty list for an empty frame).
C11_SettingsCommitted ==
  \A i \in FrameEntries :
    LET e == Entry(i)
        pairs == e.p.settings
        pre == e.pre.ingressSettings_
        post == e.post.ingressSettings_
    IN (/\ e.handler = "parseSettings" /\ WellFormed(e) /\ ACK \notin e.hdr.flags
        /\ \A k \in 1..Len(pairs) : ~BadPair(pairs[k]))
       => /\ Len(e.calls) = 1
          /\ e.calls[1].cb = "onSettings"
          /\ Len(e.calls[1].list) = Len(pairs)
          /\ \A k \in 1..Len(pairs) : e.calls[1].list[k] = pairs[k]
          /\ DOMAIN post = DOMAIN pre \cup PairIds(pairs)
          /\ \A id \in DOMAIN post :
               post[id] = LastValue(pairs, id, getSetting(pre, id, U32(0)))

\* A frame that names ENABLE_PUSH twice: both pairs are reported, the second
\* value is the one stored.
C11_Witness ==
  \E i \in FrameEntries :
    /\ Entry(i).handler = "parseSettings"
    /\ Entry(i).p.settings = <<<<2, U32(0)>>, <<2, U32(1)>>>>
    /\ Len(Entry(i).calls) = 1
    /\ Len(Entry(i).calls[1].list) = 2
    /\ Entry(i).pre.ingressSettings_[2] = U32(0)
    /\ Entry(i).post.ingressSettings_[2] = U32(1)

\* C26 (as claimed): a SETTINGS frame rejected with PROTOCOL_ERROR because
\* of an invalid pair leaves ingressSettings_ and the table size of the
\* header encoder as they were before the frame, whatever valid pairs stand
\* before the invalid one.
C26_SettingsRejectionAtomic ==
  \A i \in FrameEntries :
    LET e == Entry(i) IN
    (/\ e.handler = "parseSettings" /\ WellFormed(e) /\ ACK \notin e.hdr.flags
     /\ e.err = PROTOCOL_ERROR)
    => /\ e.post.ingressSettings_ = e.pre.ingressSettings_
       /\ e.post.encoderHeaderTableSize = e.pre.encoderHeaderTableSize

(***************************************************************************)
(* Egress.  The session generates header blocks and bodies; the peer's     *)
(* SETTINGS frames move the frame size the codec may send.  The arguments  *)
(* of generateHeader meet its DCHECKs: a request is sent by an upstream    *)
(* codec or pushed, a response and a push come from a downstream codec.    *)
(***************************************************************************)
PeerSettingsFrames ==
  {SettingsFrame({}, <<<<MAX_FRAME_SIZE, U32(kMaxFramePayloadLengthMin + 1)>>>>),
   SettingsFrame({}, <<<<MAX_FRAME_SIZE, U32(kMaxFramePayloadLength)>>>>)}

OnIngressPeerSettings == OnIngressWhole(PeerSettingsFrames)

EgressHeaders ==
  {H("x-a", "v"), H("x-b", SplitLess3), H("x-c", SplitLong),
   H("Connection", "close"), H("Host", "h")}

RECURSIVE HeaderSeqs(_)
HeaderSeqs(k) ==
  IF k = 0 THEN {<<>>}
  ELSE LET shorter == HeaderSeqs(k - 1) IN
       shorter \cup {Append(s, e) : s \in shorter, e \in EgressHeaders}

RequestMsg(headers) ==
  [NoMsg EXCEPT !.ok = TRUE, !.isRequest = TRUE, !.method = "GET", !.url = "/",
                !.secure = TRUE, !.headers = headers]

ResponseMsg(headers) ==
  [NoMsg EXCEPT !.ok = TRUE, !.status = 200, !.headers = headers]

EgressMsgs ==
  {RequestMsg(hs) : hs \in HeaderSeqs(MaxChunks)}
  \cup {ResponseMsg(hs) : hs \in HeaderSeqs(MaxChunks)}

\* The DCHECKs of generateHeader on its arguments.
GenerateHeaderContract(c, msg, assocStream) ==
  /\ msg.isRequest => (c.transportDirection_ = UPSTREAM \/ assocStream # 0)
  /\ ~msg.isRequest => c.transportDirection_ = DOWNSTREAM
  /\ assocStream # 0 => c.transportDirection_ = DOWNSTREAM

GenerateHeader ==
  \E stream \in {1, 2}, assocStream \in {0, 1}, msg \in EgressMsgs :
    /\ Idle
    /\ GenerateHeaderContract(codec, msg, assocStream)
    /\ \E g \in {generateHeader(codec, stream, msg, assocStream)} :
         /\ codec' = g.c
         /\ lastGen' = [NoGen EXCEPT !.op = "generateHeader", !.stream = stream,
                                     !.assoc = assocStream, !.msg = msg,
                                     !.frames = g.frames, !.size = g.size,
                                     !.ret = g.ret, !.pre = codec]
    /\ UNCHANGED <<wire, avail, lastCall, goaways, gotGoaway, hist>>

\* Chain lengths at and next to every multiple of the frame size limit.
BodyLengths(max) ==
  {k * max + d : k \in 0..(MaxChunks - 1), d \in {0, 1, max - 1}}
  \cup {MaxChunks * max}

GenerateBody ==
  \E stream \in {1}, eom \in BOOLEAN,
     chainLength \in BodyLengths(ToInt(maxSendFrameSize(codec))) :
    /\ Idle
    /\ \E g \in {generateBody(codec, stream, chainLength, eom)} :
         /\ codec' = g.c
         /\ lastGen' = [NoGen EXCEPT !.op = "generateBody", !.stream = stream,
                                     !.chainLength = chainLength, !.eom = eom,
                                     !.frames = g.frames, !.ret = g.ret,
                                     !.pre = codec]
    /\ UNCHANGED <<wire, avail, lastCall, goaways, gotGoaway, hist>>

NextEgress ==
  OnIngressPeerSettings \/ TrimIngress \/ GenerateHeader \/ GenerateBody
  \/ DrainEgress

SpecEgress == Init /\ [][NextEgress]_vars

\* The fragments of the frames are consecutive byte ranges that cover total
\* bytes from the first on.
Consecutive(frames, total) ==
  /\ frames # <<>>
  /\ frames[1].from = 0
  /\ \A k \in 1..(Len(frames) - 1) :
       frames[k + 1].from = frames[k].from + frames[k].len
  /\ frames[Len(frames)].from + frames[Len(frames)].len = total

\* The least number of pieces of at most max bytes that make up n bytes.
CeilDiv(n, max) == (n + max - 1) \div max

\* C12 (as claimed): generateHeader on a message that encodes to more than
\* kHeaderSplitSize bytes writes one HEADERS frame (PUSH_PROMISE when the
\* associated stream is not 0) and then ceil(N / kHeaderSplitSize) - 1
\* CONTINUATION frames on the stream of that first frame; the fragments are
\* at most kHeaderSplitSize bytes each and make up the encoded block in
\* order; END_HEADERS is on the last frame only.
C12_HeaderFragmentation ==
  (lastGen.op = "generateHeader" /\ lastGen.size > kHeaderSplitSize) =>
    LET frames == lastGen.frames
        n == Len(frames)
    IN /\ n = CeilDiv(lastGen.size, kHeaderSplitSize)
       /\ Consecutive(frames, lastGen.size)
       /\ frames[1].type = (IF lastGen.assoc # 0 THEN "PUSH_PROMISE" ELSE "HEADERS")
       /\ \A k \in 1..n :
            /\ frames[k].len <= kHeaderSplitSize
            /\ END_HEADERS \in frames[k].flags <=> k = n
            /\ k > 1 => /\ frames[k].type = "CONTINUATION"
                        /\ frames[k].stream = frames[1].stream

\* C29 (as claimed): every HEADERS, PUSH_PROMISE and CONTINUATION frame that
\* generateHeader writes carries a fragment of at most maxSendFrameSize()
\* bytes, the frame size the peer advertised (16384 when it advertised none).
C29_HeaderFragmentWithinPeerLimit ==
  lastGen.op = "generateHeader" =>
    \A k \in 1..Len(lastGen.frames) :
      lastGen.frames[k].len <= ToInt(maxSendFrameSize(lastGen.pre))

\* C13: generateBody on a chain of L bytes writes max(1, ceil(L / limit))
\* DATA frames on the given stream, limit being maxSendFrameSize(); the
\* payloads are at most limit bytes each and make up the chain in order;
\* END_STREAM is clear on every frame but the last, which carries the
\* caller's eom flag (and is empty when L = 0); the value returned is the
\* number of bytes written.
C13_BodyFragmentation ==
  lastGen.op = "generateBody" =>
    LET frames == lastGen.frames
        n == Len(frames)
        len == lastGen.chainLength
        limit == ToInt(maxSendFrameSize(lastGen.pre))
    IN /\ n = (IF len = 0 THEN 1 ELSE CeilDiv(len, limit))
       /\ Consecutive(frames, len)
       /\ \A k \in 1..n :
            /\ frames[k].type = "DATA"
            /\ frames[k].stream = lastGen.stream
            /\ frames[k].len <= limit
            /\ k < n => END_STREAM \notin frames[k].flags
       /\ END_STREAM \in frames[n].flags <=> lastGen.eom
       /\ lastGen.ret = n * 9 + len

\* A chain one byte longer than twice the limit the peer has raised: three
\* frames, the last of one byte with END_STREAM.
C13_Witness ==
  /\ lastGen.op = "generateBody"
  /\ lastGen.eom
  /\ maxSendFrameSize(lastGen.pre) = U32(16385)
  /\ lastGen.chainLength = 2 * 16385 + 1
  /\ Len(lastGen.frames) = 3
  /\ lastGen.frames[3].len = 1
  /\ lastGen.frames[3].flags = {END_STREAM}

(***************************************************************************)
(* Header blocks and push.  The peer opens header blocks with HEADERS and  *)
(* PUSH_PROMISE frames and continues them; the session switches server     *)
(* push off and on in its egress settings and ends the connection with a   *)
(* final GOAWAY.  hist.open is the header block in progress, hist.blocks   *)
(* the blocks a frame of the last call belonged to, hist.erred whether a   *)
(* call has reported a connection error.                                   *)
(***************************************************************************)
ReqMid == <<H(":scheme", "https")>>
ReqEnd == <<H(":path", "/")>>

PushFrames ==
  {BlockFrame("HEADERS", {END_HEADERS}, 1, ReqBlock),
   BlockFrame("HEADERS", {END_HEADERS}, 1, RespBlock),
   BlockFrame("HEADERS", {}, 1, ReqHead),
   BlockFrame("CONTINUATION", {}, 1, ReqMid),
   BlockFrame("CONTINUATION", {END_HEADERS}, 1, ReqEnd),
   BlockFrame("CONTINUATION", {END_HEADERS}, 1, ReqTail),
   BlockFrame("CONTINUATION", {END_HEADERS}, 1, ReqBlock),
   PushFrame({END_HEADERS}, 1, 2, ReqBlock),
   PushFrame({}, 1, 2, ReqHead),
   Frame("DATA", {END_STREAM}, 1, 2, NullPayload)}

\* The frame of entry e got as far as parseHeadersImpl: a CONTINUATION the
\* serializer accepted, or an opening frame that passed the checks of its
\* handler.
ReachedImpl(e) ==
  \/ e.handler = "parseContinuation" /\ WellFormed(e)
  \/ /\ e.handler \in {"parseHeaders", "parsePushPromise"}
     /\ \/ e.err = COMPRESSION_ERROR
        \/ e.err = NO_ERROR /\ e.pre.sessionClosing_ # CLOSED

\* The frame of entry e made parseHeadersImpl call the header decoder.
Decodes(e) == ReachedImpl(e) /\ END_HEADERS \in e.hdr.flags

\* The bytes the decoder is handed for entry e.
DecoderInput(e) == e.pre.curHeaderBlock_ \o e.p.block

\* The block a HEADERS or PUSH_PROMISE frame opens, from its trace entry.
OpenedBlock(e) ==
  [opener |-> e.hdr.type, stream |-> e.hdr.stream, promised |-> e.p.promised,
   dropped |-> (e.err = NO_ERROR /\ e.pre.sessionClosing_ = CLOSED),
   err |-> e.err, block |-> e.p.block, calls |-> e.calls, frames |-> 1,
   done |-> END_HEADERS \in e.hdr.flags,
   accepted |-> IF e.err \in {NO_ERROR, COMPRESSION_ERROR}
                THEN e.p.block ELSE <<>>,
   decoded |-> Decodes(e),
   input |-> IF Decodes(e) THEN DecoderInput(e) ELSE <<>>]

\* The block in progress after the CONTINUATION frame of entry e.
ContinuedBlock(b, e) ==
  [b EXCEPT !.block = @ \o e.p.block,
            !.calls = @ \o e.calls,
            !.frames = @ + 1,
            !.err = IF @ # NO_ERROR THEN @ ELSE e.err,
            !.done = END_HEADERS \in e.hdr.flags,
            !.accepted = IF WellFormed(e) THEN @ \o e.p.block ELSE @,
            !.decoded = Decodes(e),
            !.input = IF Decodes(e) THEN DecoderInput(e) ELSE <<>>]

\* st.open is the block in progress, st.blocks the blocks met so far in the
\* call; st.touched says that the block in progress is the last of them.
BlockStep(st, e) ==
  IF e.step # "frame" THEN st
  ELSE IF e.handler \in {"parseHeaders", "parsePushPromise"}
  THEN The({[open |-> IF b.done THEN NoBlock ELSE b,
             blocks |-> Append(st.blocks, b),
             touched |-> ~b.done]
            : b \in {OpenedBlock(e)}})
  ELSE IF e.handler = "parseContinuation"
  THEN The({[open |-> IF b.done THEN NoBlock ELSE b,
             blocks |-> IF st.touched
                        THEN [st.blocks EXCEPT ![Len(st.blocks)] = b]
                        ELSE Append(st.blocks, b),
             touched |-> ~b.done]
            : b \in {ContinuedBlock(st.open, e)}})
  ELSE st

RECURSIVE BlockLoop(_, _, _)
BlockLoop(st0, trace, i) ==
  The({(IF i > Len(trace) THEN st
        ELSE BlockLoop(BlockStep(st, trace[i]), trace, i + 1))
       : st \in {st0}})

RecordBlocks(h, r) ==
  The({[h EXCEPT !.open = st.open, !.blocks = st.blocks,
                 !.erred = h.erred \/ r.connError # NO_ERROR]
       : st \in {BlockLoop([open |-> h.open, blocks |-> <<>>, touched |-> FALSE],
                           r.trace, 1)}})

OnIngressPush ==
  \E newToks \in FrameSeqs(PushFrames, MaxNew) :
    /\ Len(wire \o newToks) <= MaxWire
    /\ IngressCall(newToks, TotalSize(wire \o newToks))
    /\ hist' = RecordBlocks(hist, lastCall')
    /\ hist'.open.frames < MaxBlock

\* The caller drops the consumed bytes and the record of the call.
TrimIngressPush == TrimBuffer /\ hist' = [hist EXCEPT !.blocks = <<>>]

\* The session sets ENABLE_PUSH in the settings it advertises.
SetEnablePush ==
  \E v \in {U32(0), U32(1)} :
    /\ Idle
    /\ getSetting(codec.egressSettings_, ENABLE_PUSH, kMaxUInt32) # v
    /\ codec' = [codec EXCEPT !.egressSettings_ = setSetting(@, ENABLE_PUSH, v)]
    /\ UNCHANGED <<wire, avail, lastCall, lastGen, goaways, gotGoaway, hist>>

\* A GOAWAY that names a last stream: the connection is CLOSED at once.
FinalGoawayArgs == {<<3, NO_ERROR>>}

GenerateFinalGoaway == GenerateGoawayWith(FinalGoawayArgs)

NextPush ==
  OnIngressPush \/ TrimIngressPush \/ SetEnablePush \/ GenerateFinalGoaway
  \/ DrainEgress

SpecPush == Init /\ [][NextPush]_vars

\* The frame of entry e is a PUSH_PROMISE the codec may not receive.
PushRefused(e) ==
  /\ e.hdr.type = "PUSH_PROMISE"
  /\ \/ e.pre.transportDirection_ = DOWNSTREAM
     \/ getSetting(e.pre.egressSettings_, ENABLE_PUSH, U32(1)) # U32(1)

\* C14: a PUSH_PROMISE frame received by a downstream codec, or by an upstream
\* codec whose egress settings do not have ENABLE_PUSH = 1, ends the call
\* with connection error PROTOCOL_ERROR, reported as on_error(0, ..,
\* new_txn = false); the frame causes no callback of its own (no
\* on_push_message_begin, no on_headers_complete), leaves the accumulated
\* header block as it was and does not change lastStreamID_.
C14_PushPromiseRefused ==
  \A i \in FrameEntries :
    LET e == Entry(i)
        calls == lastCall.calls
    IN PushRefused(e) =>
         /\ e.err = PROTOCOL_ERROR
         /\ e.calls = <<>>
         /\ e.post.curHeaderBlock_ = e.pre.curHeaderBlock_
         /\ e.post.lastStreamID_ = e.pre.lastStreamID_
         /\ i = Len(lastCall.trace)
         /\ lastCall.connError = PROTOCOL_ERROR
         /\ calls # <<>>
         /\ calls[Len(calls)] = [CB("onError", 0) EXCEPT
                                   !.codecStatus = PROTOCOL_ERROR, !.newTxn = FALSE]
         /\ \A k \in 1..Len(calls) :
              calls[k].cb = "onPushMessageBegin" => calls[k].stream # e.p.promised

\* An upstream codec that switched push off receives a well-formed
\* PUSH_PROMISE on an even, new promised stream and refuses it.
C14_Witness ==
  \E i \in FrameEntries :
    /\ Entry(i).pre.transportDirection_ = UPSTREAM
    /\ Entry(i).pre.egressSettings_[2] = U32(0)
    /\ Entry(i).handler = "parsePushPromise"
    /\ Entry(i).p.promised = 2
    /\ Entry(i).pre.lastStreamID_ = 0
    /\ Entry(i).pre.sessionClosing_ = OPEN
    /\ Entry(i).err = PROTOCOL_ERROR

\* The common header of entry e declares more than maxRecvFrameSize() bytes.
Oversized(e) == U32Less(maxRecvFrameSize(e.pre), U32(e.hdr.length))

\* C15 (as claimed): a common header that declares a length above
\* maxRecvFrameSize() yields FRAME_SIZE_ERROR and is not marked as parsed
\* (needHeader_ stays set), so that no call, this one or a later one, hands
\* the payload of that frame to parseFrame.
C15_OversizedFrameNotDispatched ==
  /\ \A i \in 1..Len(lastCall.trace) :
       (Entry(i).step = "header" /\ Oversized(Entry(i))) =>
          /\ Entry(i).err = FRAME_SIZE_ERROR
          /\ Entry(i).post.needHeader_
  /\ \A i \in FrameEntries : ~Oversized(Entry(i))

\* C16 (as claimed): a header block whose opening frame (HEADERS on a
\* downstream codec, PUSH_PROMISE on an upstream one) passed stream-id
\* validation while the codec was CLOSED causes no callback, neither by the
\* opening frame nor by the CONTINUATION frames that complete it.  (Stated
\* for histories without a connection error.)
C16_ClosedDropsBlock ==
  ~hist.erred =>
    \A k \in 1..Len(hist.blocks) :
      LET b == hist.blocks[k] IN
      (/\ b.dropped
       /\ \/ b.opener = "HEADERS" /\ codec.transportDirection_ = DOWNSTREAM
          \/ b.opener = "PUSH_PROMISE" /\ codec.transportDirection_ = UPSTREAM)
      => b.calls = <<>>

\* What parseFrame does with the frame of entry e on an OPEN codec.
AsIfOpen(e) ==
  parseFrame([e.pre EXCEPT !.needHeader_ = TRUE, !.sessionClosing_ = OPEN], e.p)

\* C17 (as claimed): on a CLOSED codec every frame other than HEADERS on a
\* downstream codec and PUSH_PROMISE on an upstream codec (a response HEADERS
\* on an odd stream of an upstream codec, for one) causes the callbacks it
\* would cause on an OPEN codec.
C17_ClosedStillReports ==
  \A i \in FrameEntries :
    LET e == Entry(i) IN
    (/\ e.pre.sessionClosing_ = CLOSED
     /\ ~(e.hdr.type = "HEADERS" /\ e.pre.transportDirection_ = DOWNSTREAM)
     /\ ~(e.hdr.type = "PUSH_PROMISE" /\ e.pre.transportDirection_ = UPSTREAM))
    => e.calls = AsIfOpen(e).calls

\* C18 (as claimed): on an upstream codec with push enabled a PUSH_PROMISE
\* frame on associated stream A that promises stream P and carries a whole,
\* valid request block is reported as on_push_message_begin(P, A) and then
\* on_headers_complete(P, msg).
C18_PushCompleteNamesPromised ==
  \A i \in FrameEntries :
    LET e == Entry(i) IN
    (/\ e.handler = "parsePushPromise"
     /\ e.err = NO_ERROR
     /\ END_HEADERS \in e.hdr.flags
     /\ e.pre.sessionClosing_ # CLOSED
     /\ parseHeaderList(e.p.block, TRUE).error = "")
    => /\ Len(e.calls) >= 2
       /\ e.calls[1].cb = "onPushMessageBegin"
       /\ e.calls[1].stream = e.p.promised
       /\ e.calls[1].assoc = e.hdr.stream
       /\ e.calls[2].cb = "onHeadersComplete"
       /\ e.calls[2].stream = e.p.promised

\* The positions of a callback name in a sequence of callbacks.
Positions(calls, names) == {k \in 1..Len(calls) : calls[k].cb \in names}

\* C19 (as claimed): a header block opened by a PUSH_PROMISE frame is
\* validated as a request, whether END_HEADERS came on the PUSH_PROMISE or on
\* a CONTINUATION: a block that is a valid request list is reported by
\* on_headers_complete with that request, any other by on_error (status 400)
\* and no on_headers_complete.  (Blocks that decode, opened on an OPEN codec,
\* in histories without a connection error.)
C19_PushBlockIsRequest ==
  ~hist.erred =>
    \A k \in 1..Len(hist.blocks) :
      LET b == hist.blocks[k]
          complete == Positions(b.calls, {"onHeadersComplete"})
          errors == Positions(b.calls, {"onError"})
      IN (/\ b.opener = "PUSH_PROMISE" /\ b.done /\ ~b.dropped
          /\ ~HeaderDecode(b.block).isError)
         => The({(IF r.error = ""
                  THEN /\ errors = {}
                       /\ \E j \in complete : b.calls[j].msg = r.msg
                  ELSE /\ complete = {}
                       /\ \E j \in errors : b.calls[j].httpStatus = 400)
                 : r \in {parseHeaderList(b.block, TRUE)}})

\* C20 (as claimed): every on_headers_complete(s, msg) is preceded, among the
\* callbacks of its header block, by exactly one on_message_begin(s) (or
\* on_push_message_begin for a pushed block), and a header block, however
\* many CONTINUATION frames it has, causes at most one on_message_begin (or
\* on_push_message_begin) and at most one on_headers_complete.  (Histories
\* without a connection error.)
C20_BeginBeforeComplete ==
  ~hist.erred =>
    \A k \in 1..Len(hist.blocks) :
      LET b == hist.blocks[k]
          begin == Positions(b.calls, {"onMessageBegin", "onPushMessageBegin"})
          complete == Positions(b.calls, {"onHeadersComplete"})
      IN /\ Cardinality(begin) <= 1
         /\ Cardinality(complete) <= 1
         /\ \A j \in complete :
              /\ Cardinality({x \in begin : x < j}) = 1
              /\ \A x \in begin :
                   b.calls[x].cb = "onMessageBegin"
                     => b.calls[x].stream = b.calls[j].stream

(***************************************************************************)
(* Header lists.  The peer sends header blocks in one frame and in several,*)
(* with END_STREAM on the opening frame, with a connection header, blocks   *)
(* the decoder rejects and a CONTINUATION frame the serializer rejects     *)
(* (its padding is longer than its payload); the session ends the          *)
(* connection with a final GOAWAY.  hist is kept as for push.              *)
(***************************************************************************)
ConnBlock == ReqBlock \o <<H("connection", "close")>>
ConnTail == <<H("connection", "close")>>

HeaderFrames ==
  {BlockFrame("HEADERS", {END_HEADERS}, 1, ConnBlock),
   BlockFrame("HEADERS", {END_HEADERS, END_STREAM}, 3, ReqBlock),
   BlockFrame("HEADERS", {END_STREAM}, 1, ReqHead),
   BlockFrame("CONTINUATION", {}, 1, ReqMid),
   BlockFrame("CONTINUATION", {END_HEADERS}, 1, ReqTail),
   BlockFrame("CONTINUATION", {END_HEADERS}, 1, ConnTail),
   BlockFrame("CONTINUATION", {END_HEADERS}, 1, BadBlock),
   Frame("CONTINUATION", {END_HEADERS}, 1, 1, GarbagePayload)}

\* The fragments a rejected CONTINUATION leaves behind add up from block to
\* block: the accumulated block is kept to MaxBlock entries.
OnIngressHeaders ==
  \E newToks \in FrameSeqs(HeaderFrames, MaxNew) :
    /\ Len(wire \o newToks) <= MaxWire
    /\ IngressCall(newToks, TotalSize(wire \o newToks))
    /\ hist' = RecordBlocks(hist, lastCall')
    /\ hist'.open.frames < MaxBlock
    /\ Len(codec'.curHeaderBlock_) <= MaxBlock

NextHeaders ==
  OnIngressHeaders \/ TrimIngressPush \/ GenerateFinalGoaway \/ DrainEgress

SpecHeaders == Init /\ [][NextHeaders]_vars

\* C21 (as claimed): a header block that decodes to a list with a regular
\* header named connection is a connection error: the frame returns an error
\* code, the loop ends with it, the call reports on_error(0, ..,
\* new_txn = false), and the frame causes no on_error with HTTP status 400.
C21_ConnectionHeaderIsConnectionError ==
  \A i \in FrameEntries :
    LET e == Entry(i)
        list == DecoderInput(e)
        calls == lastCall.calls
    IN (/\ Decodes(e)
        /\ ~HeaderDecode(list).isError
        /\ \E k \in 1..Len(list) : list[k].n = "connection")
       => /\ e.err # NO_ERROR
          /\ i = Len(lastCall.trace)
          /\ lastCall.connError = e.err
          /\ calls # <<>>
          /\ calls[Len(calls)] = [CB("onError", 0) EXCEPT
                                    !.codecStatus = e.err, !.newTxn = FALSE]
          /\ \A k \in 1..Len(e.calls) : e.calls[k].httpStatus # 400

\* A frame that makes parseHeadersImpl decode a block which the decoder
\* accepts and whose list has a regular header named connection.
ConnectionHeaderCase(e) ==
  /\ Decodes(e)
  /\ ~HeaderDecode(DecoderInput(e)).isError
  /\ \E k \in 1..Len(DecoderInput(e)) : DecoderInput(e)[k].n = "connection"

\* C21: a header block that decodes to a list with a regular header named
\* connection is a stream error: the frame is reported as
\* on_error(stream, HTTP status 400, new_txn = true) and by no other
\* callback, its handler returns NO_ERROR, and it is no connection error
\* (the call reports no on_error(0, ..) for it and the loop goes on).
C21_ConnectionHeaderIsStreamError ==
  \A i \in FrameEntries :
    LET e == Entry(i) IN
    ConnectionHeaderCase(e) =>
      /\ e.err = NO_ERROR
      /\ e.calls = <<[CB("onError", e.hdr.stream)
                       EXCEPT !.httpStatus = 400, !.newTxn = TRUE]>>
      /\ i = Len(lastCall.trace) => lastCall.connError = NO_ERROR

\* A request with a connection header on stream 1 is answered with the
\* stream error, and the frame behind it in the buffer is parsed.
C21_Witness ==
  \E i \in FrameEntries :
    /\ ConnectionHeaderCase(Entry(i))
    /\ Entry(i).handler = "parseHeaders"
    /\ Entry(i).p.block = ConnBlock
    /\ Entry(i).calls # <<>>
    /\ Entry(i).calls[1].httpStatus = 400
    /\ \E j \in FrameEntries : j > i /\ Entry(j).step = "frame"

\* C25 (as claimed): when a frame with END_HEADERS makes parseHeadersImpl
\* call the decoder, the decoder is handed the fragment of the frame that
\* opened the block followed by the fragments of the CONTINUATION frames of
\* the block, in arrival order, each once, and nothing else (no bytes of an
\* earlier block, none of a frame that failed).
C25_DecoderInputIsBlock ==
  \A k \in 1..Len(hist.blocks) :
    LET b == hist.blocks[k] IN
    b.decoded => b.input = b.accepted

\* C27 (as claimed): among the callbacks of a header block,
\* on_message_complete(s) comes only after the on_headers_complete(s) of the
\* block: a HEADERS frame with END_STREAM and without END_HEADERS causes no
\* on_message_complete before the CONTINUATION that ends the block has
\* caused on_headers_complete.
C27_CompleteAfterHeaders ==
  \A k \in 1..Len(hist.blocks) :
    LET b == hist.blocks[k] IN
    \A j \in Positions(b.calls, {"onMessageComplete"}) :
      \E x \in Positions(b.calls, {"onHeadersComplete"}) :
        x < j /\ b.calls[x].stream = b.calls[j].stream

\* C30 (as claimed): between two frames, whatever frames came before and
\* whatever errors they raised, expectedContinuationStream_ = 0 implies that
\* curHeaderBlock_ is empty; and a frame that makes parseHeadersImpl call the
\* decoder leaves curHeaderBlock_ empty, also when the decoder fails.
C30_NoBlockOutsideContinuation ==
  /\ codec.expectedContinuationStream_ = 0 => codec.curHeaderBlock_ = <<>>
  /\ \A i \in FrameEntries :
       LET e == Entry(i) IN
       /\ e.post.expectedContinuationStream_ = 0 => e.post.curHeaderBlock_ = <<>>
       /\ Decodes(e) => e.post.curHeaderBlock_ = <<>>

(***************************************************************************)
(* Chunked delivery.  The peer's bytes reach the caller's buffer in chunks *)
(* that end anywhere (at the end of a token or inside it); each call gets  *)
(* the unconsumed bytes followed by the next chunk.  hist keeps, from the  *)
(* start: every token sent, the number of bytes delivered, the callbacks   *)
(* of all calls (log) and the bytes they consumed (total), and the same    *)
(* two up to and including the first call that ended in a connection error *)
(* (errLog, errTotal, erred).                                              *)
(***************************************************************************)
ChunkFrames ==
  {BlockFrame("HEADERS", {END_HEADERS}, 1, ReqBlock),
   BlockFrame("HEADERS", {END_HEADERS}, 2, ReqBlock),
   BlockFrame("HEADERS", {END_HEADERS}, 3, NoSchemeBlock),
   Frame("DATA", {END_STREAM}, 1, 2, NullPayload),
   SettingsFrame({}, <<>>)}

InitChunk == InitCodec /\ hist = [NoHist EXCEPT !.sent = wire]

Record(h, newToks, n, r) ==
  LET log == h.log \o r.calls
      total == h.total + r.parsed
  IN [sent |-> h.sent \o newToks,
      delivered |-> h.total + n,
      log |-> log,
      total |-> total,
      errLog |-> IF h.erred THEN h.errLog ELSE log,
      errTotal |-> IF h.erred THEN h.errTotal ELSE total,
      erred |-> h.erred \/ r.connError # NO_ERROR,
      open |-> h.open, blocks |-> h.blocks]

\* The peer sends at most one more frame, the next chunk arrives (the buffer
\* then holds the first n unconsumed bytes) and onIngress runs.
OnIngressChunk ==
  \E newToks \in FrameSeqs(ChunkFrames, 1) :
    \E n \in CutPoints(wire \o newToks, 0) :
      /\ Len(hist.sent \o newToks) <= MaxSent
      /\ n >= avail
      /\ IngressCall(newToks, n)
      /\ hist' = Record(hist, newToks, n, lastCall')

NextChunk == OnIngressChunk \/ TrimIngress

SpecChunk == InitChunk /\ [][NextChunk]_vars

\* One onIngress call of a new codec on all the bytes delivered so far.
OneCall ==
  onIngress(NewCodec(codec.transportDirection_), hist.sent, hist.delivered)

\* C1 (as claimed): however the byte stream is split into chunks, the
\* callbacks and the bytes consumed are those of one onIngress call on the
\* whole stream.
C1_ChunkingEquivalence ==
  /\ hist.log = OneCall.calls
  /\ hist.total = OneCall.parsed

\* C1 (amended): however the byte stream is split into chunks, the callbacks
\* and the bytes consumed up to and including the first call that reports a
\* connection error are those of one onIngress call on the whole stream (all
\* of them when no call reports one), and the chunked feed reports a
\* connection error exactly when the one call does.
C1_ChunkingUntilError ==
  /\ hist.errLog = OneCall.calls
  /\ hist.errTotal = OneCall.parsed
  /\ hist.erred <=> OneCall.connError # NO_ERROR
  /\ ~hist.erred => hist.log = hist.errLog /\ hist.total = hist.errTotal

\* A frame split over two calls has been parsed, an earlier call reported a
\* connection error, and the calls after it consumed more bytes and made
\* more callbacks.
C1_Witness ==
  /\ hist.erred
  /\ hist.total > hist.errTotal
  /\ Len(hist.log) > Len(hist.errLog)
  /\ lastCall.pre.needHeader_ = FALSE
  /\ lastCall.calls # <<>>

\* C23 (as claimed): while needConnectionPreface_ is set no frame header is
\* parsed and no frame dispatched; 24 bytes equal to the preface clear the
\* flag, 24 bytes that differ yield PROTOCOL_ERROR and leave it set; so on a
\* connection whose first 24 bytes were not the preface no call, the first or
\* a later one, parses a frame header or dispatches a frame.
C23_PrefaceGuardsFrames ==
  /\ \A i \in 1..Len(lastCall.trace) :
       LET e == Entry(i) IN
       /\ e.step # "preface" => ~e.pre.needConnectionPreface_
       /\ e.step = "preface" =>
            /\ e.err \in {NO_ERROR, PROTOCOL_ERROR}
            /\ e.post.needConnectionPreface_ <=> e.err = PROTOCOL_ERROR
  /\ (/\ hist.sent # <<>>
      /\ Head(hist.sent).kind = "preface"
      /\ ~Head(hist.sent).ok)
     => \A i \in 1..Len(lastCall.trace) : Entry(i).step = "preface"

(***************************************************************************)
(* Errors.                                                                 *)
(***************************************************************************)
\* The bytes a loop iteration consumed.
UnitSize(e) ==
  CASE e.step = "preface" -> kConnectionPrefaceLength
    [] e.step = "header" -> kFrameHeaderSize
    [] OTHER -> e.hdr.length

RECURSIVE TraceBytes(_)
TraceBytes(trace) ==
  IF trace = <<>> THEN 0
  ELSE UnitSize(Head(trace)) + TraceBytes(Tail(trace))

RECURSIVE TraceCalls(_)
TraceCalls(trace) ==
  IF trace = <<>> THEN <<>> ELSE Head(trace).calls \o TraceCalls(Tail(trace))

\* The positions in the callbacks of a call of on_error(.., new_txn = false).
ConnErrorCalls ==
  {k \in 1..Len(lastCall.calls) :
     lastCall.calls[k].cb = "onError" /\ ~lastCall.calls[k].newTxn}

\* C8: when a parse step of an onIngress call yields a connection error the
\* loop stops there: that step is the last of the call, nothing after it in
\* the buffer is consumed or dispatched, and on_error(0, that code, false) is
\* invoked exactly once, as the last callback of the call (and not at all by
\* a call without a connection error).
C8_ConnectionErrorStopsLoop ==
  LET trace == lastCall.trace
      n == Len(trace)
      calls == lastCall.calls
  IN /\ \A i \in 1..n : trace[i].err # NO_ERROR => i = n
     /\ lastCall.connError = (IF n = 0 THEN NO_ERROR ELSE trace[n].err)
     /\ lastCall.parsed = TraceBytes(trace)
     /\ lastCall.connError = NO_ERROR => ConnErrorCalls = {}
     /\ lastCall.connError # NO_ERROR =>
          /\ ConnErrorCalls = {Len(calls)}
          /\ calls[Len(calls)].stream = 0
          /\ calls[Len(calls)].codecStatus = lastCall.connError
          /\ SubSeq(calls, 1, Len(calls) - 1) = TraceCalls(trace)

\* A connection error with a whole frame behind it in the same buffer.
C8_Witness ==
  LET rest == DropBytes(wire, lastCall.parsed) IN
  /\ lastCall.connError = PROTOCOL_ERROR
  /\ lastCall.trace[Len(lastCall.trace)].step = "frame"
  /\ rest # <<>>
  /\ Head(rest).kind = "header"
  /\ avail - lastCall.parsed >= kFrameHeaderSize + Head(rest).h.length

\* The frame of entry e passes the checks made before its header block is
\* decoded.
Admitted(e) ==
  LET down == e.pre.transportDirection_ = DOWNSTREAM
      fresh(id) == id # 0 /\ id >= e.pre.lastStreamID_
  IN /\ WellFormed(e)
     /\ CASE e.handler = "parseHeaders" ->
               /\ e.hdr.stream % 2 = 1
               /\ down => fresh(e.hdr.stream)
               /\ e.pre.sessionClosing_ # CLOSED
          [] e.handler = "parsePushPromise" ->
               /\ ~down
               /\ getSetting(e.pre.egressSettings_, ENABLE_PUSH, U32(1)) = U32(1)
               /\ e.p.promised % 2 = 0 /\ fresh(e.p.promised)
               /\ e.pre.sessionClosing_ # CLOSED
          [] e.handler = "parseContinuation" -> TRUE
          [] OTHER -> FALSE

\* Entry e ends a header block that decodes and whose list fails validation.
StreamErrorCase(e) ==
  LET block == e.pre.curHeaderBlock_ \o e.p.block
      isRequest == e.pre.transportDirection_ = DOWNSTREAM
                   \/ e.handler = "parsePushPromise"
  IN /\ e.step = "frame"
     /\ Admitted(e)
     /\ END_HEADERS \in e.hdr.flags
     /\ ~HeaderDecode(block).isError
     /\ parseHeaderList(block, isRequest).error # ""

\* C9: a header block that decodes but fails header-list validation is
\* reported as on_error(stream, HTTP status 400, new_txn = true) and by no
\* other callback (no on_headers_complete), is no connection error, leaves
\* isReusable() as it was, and the loop goes on with the frames behind it in
\* the buffer, whose callbacks follow in order.
C9_StreamError ==
  \A i \in 1..Len(lastCall.trace) :
    LET e == Entry(i) IN
    StreamErrorCase(e) =>
      /\ e.err = NO_ERROR
      /\ e.calls = <<[CB("onError", e.hdr.stream)
                       EXCEPT !.httpStatus = 400, !.newTxn = TRUE]>>
      /\ isReusable(e.post) = isReusable(e.pre)
      /\ i = Len(lastCall.trace) =>
           /\ lastCall.connError = NO_ERROR
           /\ avail - lastCall.parsed < kFrameHeaderSize
      /\ \E k \in 1..Len(lastCall.calls) :
           /\ lastCall.calls[k] = e.calls[1]
           /\ SubSeq(lastCall.calls, k + 1, Len(lastCall.calls))
                = TraceCalls(SubSeq(lastCall.trace, i + 1, Len(lastCall.trace)))
                  \o checkConnectionError(lastCall.connError)

\* A stream error followed, in the same call, by a frame that is parsed and
\* reported.
C9_Witness ==
  \E i \in 1..Len(lastCall.trace) :
    /\ StreamErrorCase(Entry(i))
    /\ i + 2 <= Len(lastCall.trace)
    /\ Entry(i + 2).err = NO_ERROR
    /\ Entry(i + 2).calls # <<>>

(***************************************************************************)
(* Shutdown.  lastGen is the record of the generateGoaway call that has    *)
(* just returned (its arguments, the codec before it, what it wrote and    *)
(* returned), goaways every GOAWAY frame the codec has written, gotGoaway  *)
(* whether parseGoaway has taken a GOAWAY of the peer.                     *)
(***************************************************************************)
ClosingRank(closing) ==
  CASE closing = OPEN -> 0
    [] closing = FIRST_GOAWAY_SENT -> 1
    [] OTHER -> 2

GoawayCallOk ==
  lastGen.op = "generateGoaway" =>
    LET pre == lastGen.pre.sessionClosing_
        post == codec.sessionClosing_
        graceful == lastGen.lastStream = 2147483647 /\ lastGen.code = NO_ERROR
    IN /\ (pre = OPEN /\ graceful) => post = FIRST_GOAWAY_SENT
       /\ (pre = OPEN /\ ~graceful) => post = CLOSED
       /\ pre = FIRST_GOAWAY_SENT => post = CLOSED
       /\ pre = CLOSED => post = CLOSED /\ lastGen.frames = <<>> /\ lastGen.ret = 0
       /\ pre # CLOSED => Len(lastGen.frames) = 1 /\ lastGen.ret > 0

\* C5: generateGoaway moves sessionClosing_ from OPEN to FIRST_GOAWAY_SENT for
\* (INT32_MAX, NO_ERROR) and to CLOSED for any other arguments, from
\* FIRST_GOAWAY_SENT to CLOSED, and in CLOSED writes nothing, returns 0 and
\* stays CLOSED; at most two GOAWAY frames are ever written and no step of the
\* codec moves the state backwards.
C5_GoawayLifecycle ==
  /\ [](GoawayCallOk /\ Len(goaways) <= 2)
  /\ [][ClosingRank(codec'.sessionClosing_) >= ClosingRank(codec.sessionClosing_)]_vars

C5_Witness ==
  /\ lastGen.op = "generateGoaway"
  /\ lastGen.pre.sessionClosing_ = CLOSED
  /\ lastGen.ret = 0
  /\ Len(goaways) = 2
  /\ goaways[1].lastStream = 2147483647 /\ goaways[1].code = NO_ERROR

\* C6: ingressGoawayAck_ starts at the largest 32-bit unsigned value and no
\* step (a received GOAWAY, any other ingress, any egress) makes it larger.
C6_GoawayAckNeverIncreases ==
  /\ codec.ingressGoawayAck_ = [hi |-> 65535, lo |-> 65535]
  /\ [][~U32Less(codec.ingressGoawayAck_, codec'.ingressGoawayAck_)]_vars

\* A GOAWAY with a larger last-stream id than the one held arrived and was
\* ignored.
C6_Witness ==
  \E i \in FrameEntries :
    /\ Entry(i).handler = "parseGoaway"
    /\ Entry(i).err = NO_ERROR
    /\ Entry(i).pre.ingressGoawayAck_ = U32(1)
    /\ Entry(i).p.lastGood = 3
    /\ Entry(i).calls = <<>>
    /\ codec.ingressGoawayAck_ = U32(1)

\* C22 (as claimed): a GOAWAY the serializer accepted is ignored (no
\* callback, ingressGoawayAck_ unchanged) only when its last-good-stream id
\* is greater than ingressGoawayAck_; every other one, one whose id equals
\* ingressGoawayAck_ included, emits on_goaway(last_good, code).
C22_GoawayIgnoredOnlyIfIncreasing ==
  \A i \in FrameEntries :
    LET e == Entry(i) IN
    (e.handler = "parseGoaway" /\ WellFormed(e)) =>
      IF U32Less(e.pre.ingressGoawayAck_, U32(e.p.lastGood))
      THEN /\ e.calls = <<>>
           /\ e.post.ingressGoawayAck_ = e.pre.ingressGoawayAck_
      ELSE e.calls = <<[CB("onGoaway", e.p.lastGood)
                          EXCEPT !.codecStatus = e.p.code]>>

NonGracefulSent ==
  \E i \in 1..Len(goaways) :
    goaways[i].lastStream # 2147483647 \/ goaways[i].code # NO_ERROR

ReusableByState ==
  /\ \/ codec.sessionClosing_ = OPEN
     \/ /\ codec.sessionClosing_ = FIRST_GOAWAY_SENT
        /\ codec.transportDirection_ = DOWNSTREAM
  /\ ~gotGoaway

\* C7: isReusable() is true exactly when sessionClosing_ is OPEN, or is
\* FIRST_GOAWAY_SENT on a downstream codec, and no GOAWAY of the peer has been
\* taken; so it is false once a non-graceful GOAWAY or a second GOAWAY was sent
\* or a GOAWAY was received, and once false it is never true again.
C7_Reusable ==
  /\ [](/\ isReusable(codec) <=> ReusableByState
        /\ (NonGracefulSent \/ Len(goaways) >= 2 \/ gotGoaway)
             => ~isReusable(codec))
  /\ [][~isReusable(codec) => ~isReusable(codec')]_vars

\* An upstream codec that sent its first, graceful GOAWAY is not reusable,
\* though it has received none.
C7_Witness ==
  /\ codec.transportDirection_ = UPSTREAM
  /\ codec.sessionClosing_ = FIRST_GOAWAY_SENT
  /\ ~gotGoaway
  /\ ~isReusable(codec)

====
